---- MODULE Spec2Model ----
(***************************************************************************)
(* Azure DevOps pull-request reviewer: the diff analyzer                   *)
(* (functions/diff-analyzer.js), the API client with its retry wrapper     *)
(* (functions/azure-devops-client.js, functions/error-handler.js), the     *)
(* report formatter (functions/report-formatter.js), the logger            *)
(* (functions/logger.js), the circuit breaker and the signature validators *)
(* (functions/error-handler.js), summarizeChanges and the webhook handler  *)
(* of index.js.                                                            *)
(*                                                                         *)
(* Text is modelled as a sequence of one-character strings, so that        *)
(* split, startsWith, substring, trim and the rule patterns are computed   *)
(* character by character as the JavaScript does.                          *)
(***************************************************************************)
EXTENDS Integers, Sequences, FiniteSets, TLC

VARIABLES
    securityPatterns,     \* DiffAnalyzer.securityPatterns
    performancePatterns,  \* DiffAnalyzer.performancePatterns
    qualityPatterns,      \* DiffAnalyzer.qualityPatterns
    pc,                   \* position of the caller of the analyzer: "idle" or "done"
    call,                 \* the call made: method name and arguments
    ret,                  \* what the call returned or threw
    scan,                 \* analysis.suggestions as it stands after the removed-line loop
    mk,                   \* what client.makeRequest is bound to: the class method or a replacement
    cpc,                  \* position of the client operation in progress
    cop,                  \* the client operation and its arguments
    attempt,              \* ErrorHandler.retry: loop variable attempt
    delay,                \* ErrorHandler.retry: local delay
    lastError,            \* ErrorHandler.retry: local lastError
    history,              \* outcomes of the makeRequest calls of this operation, in order
    sent,                 \* HTTP requests handed to https.request by this operation
    slept,                \* the delays slept by ErrorHandler.retry, in order
    cret,                 \* what the client operation returned or threw
    res,                  \* what ended the pending request: the response or the event
    fpc,                  \* position of the caller of the formatter: "idle", "once", "twice"
    fcall,                \* the formatter call made: method name and arguments
    fret,                 \* clock and outcome of each formatter call made, in order
    ucall,                \* the call of a stand-alone function made: name and arguments
    uret,                 \* what that call returned or threw
    loggerLevel,          \* Logger.level
    currentLevel,         \* Logger.currentLevel
    output,               \* the levels of the entries the logger has written, in order
    logged,               \* the levels Logger.log was called with, in order
    wpc,                  \* position of the webhook handler of index.js in the request
    wreq,                 \* the body of the request being handled
    hostCalls,            \* the calls the handler made on the Azure DevOps client, in order
    responses,            \* the responses the handler sent for the request, in order
    bpc,                  \* "none" until createCircuitBreaker has returned, then "created"
    failureThreshold,     \* createCircuitBreaker: const failureThreshold
    recoveryTimeout,      \* createCircuitBreaker: const recoveryTimeout
    state,                \* createCircuitBreaker: let state
    failureCount,         \* createCircuitBreaker: let failureCount
    lastFailureTime,      \* createCircuitBreaker: let lastFailureTime
    successCount,         \* createCircuitBreaker: let successCount
    now,                  \* Date.now()
    inflight,             \* the calls awaiting fn(): for each, the state at its admission
    completed             \* the calls through the breaker that have ended, in order

vars == <<securityPatterns, performancePatterns, qualityPatterns, pc, call, ret, scan,
          mk, cpc, cop, attempt, delay, lastError, history, sent, slept, cret, res,
          fpc, fcall, fret,
          ucall, uret, loggerLevel, currentLevel, output, logged, wpc, wreq, hostCalls, responses,
          bpc, failureThreshold, recoveryTimeout, state, failureCount, lastFailureTime,
          successCount, now, inflight, completed>>

analyzerVars == <<securityPatterns, performancePatterns, qualityPatterns, pc, call, ret, scan>>

clientVars == <<mk, cpc, cop, attempt, delay, lastError, history, sent, slept, cret, res>>

formatterVars == <<fpc, fcall, fret>>

utilityVars == <<ucall, uret>>

loggerVars == <<loggerLevel, currentLevel, output, logged>>

webhookVars == <<wpc, wreq, hostCalls, responses>>

breakerVars == <<bpc, failureThreshold, recoveryTimeout, state, failureCount,
                 lastFailureTime, successCount, now, inflight, completed>>

lateVars == <<utilityVars, loggerVars, webhookVars, breakerVars>>

-----------------------------------------------------------------------------
(* JavaScript values that may be null *)

Null == [kind |-> "null"]

Str(cs) == [kind |-> "string", chars |-> cs]

-----------------------------------------------------------------------------
(* Characters and strings *)

NL == "\n"

UpperCase == <<"A", "B", "C", "D", "E", "F", "G", "H", "I", "J", "K", "L", "M", "N", "O", "P", "Q", "R", "S", "T", "U", "V", "W", "X", "Y", "Z">>

LowerCase == <<"a", "b", "c", "d", "e", "f", "g", "h", "i", "j", "k", "l", "m", "n", "o", "p", "q", "r", "s", "t", "u", "v", "w", "x", "y", "z">>

Digits == {"0", "1", "2", "3", "4", "5", "6", "7", "8", "9"}

\* \s
WhiteSpace == {" ", "\t", "\n", "\r"}

\* the characters "." does not match
LineTerminators == {"\n", "\r"}

Range(f) == {f[i] : i \in DOMAIN f}

\* the lower-case letter of each upper-case letter
LowerOf == [u \in Range(UpperCase) |-> LowerCase[CHOOSE i \in 1..26 : UpperCase[i] = u]]

\* case folding of the i flag
Lower(c) == IF c \in DOMAIN LowerOf THEN LowerOf[c] ELSE c

\* [a-zA-Z_]
IsLetterOrUnderscore(c) == Lower(c) \in Range(LowerCase) \/ c = "_"

\* \w
IsWordChar(c) == IsLetterOrUnderscore(c) \/ c \in Digits

\* the literal w stands at position i of s
At(s, i, w) ==
    /\ i >= 1
    /\ i + Len(w) - 1 <= Len(s)
    /\ \A k \in 1..Len(w) : s[i + k - 1] = w[k]

\* the literal w (given in lower case) stands at position i of s, case ignored
AtCI(s, i, w) ==
    /\ i >= 1
    /\ i + Len(w) - 1 <= Len(s)
    /\ \A k \in 1..Len(w) : Lower(s[i + k - 1]) = w[k]

ContainsCI(s, w) == \E i \in 1..Len(s) : AtCI(s, i, w)

\* String.prototype.startsWith
startsWith(s, w) == At(s, 1, w)

\* String.prototype.substring(from), from counted from 0
substring(s, from) == SubSeq(s, from + 1, Len(s))

\* first position >= p of s holding no white space, Len(s) + 1 when there is none
SkipWs(s, p) ==
    IF \E i \in p..Len(s) : s[i] \notin WhiteSpace
    THEN CHOOSE i \in p..Len(s) :
            /\ s[i] \notin WhiteSpace
            /\ \A k \in p..(i - 1) : s[k] \in WhiteSpace
    ELSE Len(s) + 1

\* first position >= p of s holding c, Len(s) + 1 when there is none
FirstOf(s, p, c) ==
    IF \E i \in p..Len(s) : s[i] = c
    THEN CHOOSE i \in p..Len(s) : s[i] = c /\ \A k \in p..(i - 1) : s[k] # c
    ELSE Len(s) + 1

\* String.prototype.trim
trim(s) ==
    IF \A i \in 1..Len(s) : s[i] \in WhiteSpace
    THEN <<>>
    ELSE LET first == CHOOSE i \in 1..Len(s) :
                         s[i] \notin WhiteSpace /\ \A k \in 1..(i - 1) : s[k] \in WhiteSpace
             last == CHOOSE i \in 1..Len(s) :
                         s[i] \notin WhiteSpace /\ \A k \in (i + 1)..Len(s) : s[k] \in WhiteSpace
         IN  SubSeq(s, first, last)

RECURSIVE SplitFrom(_, _)
\* the pieces of s from position p on: one piece up to each '\n', and the rest
SplitFrom(s, p) ==
    LET next == FirstOf(s, p, NL)
    IN  <<SubSeq(s, p, next - 1)>> \o
            (IF next > Len(s) THEN <<>> ELSE SplitFrom(s, next + 1))

\* String.prototype.split('\n'): the empty string gives one empty piece
split(s) == SplitFrom(s, 1)

RECURSIVE JoinLines(_)
\* the text whose lines are ls (Array.prototype.join('\n'))
JoinLines(ls) ==
    IF ls = <<>> THEN <<>>
    ELSE IF Len(ls) = 1 THEN ls[1]
    ELSE ls[1] \o <<NL>> \o JoinLines(Tail(ls))

-----------------------------------------------------------------------------
(* The rule patterns (regular expressions), each as the test it performs   *)

SqlKeywords == {<<"s", "e", "l", "e", "c", "t">>, <<"i", "n", "s", "e", "r", "t">>, <<"u", "p", "d", "a", "t", "e">>, <<"d", "e", "l", "e", "t", "e">>,
                <<"d", "r", "o", "p">>, <<"c", "r", "e", "a", "t", "e">>, <<"a", "l", "t", "e", "r">>}

\* no line terminator in s[a..b]
NoLT(s, a, b) == \A k \in a..b : s[k] \notin LineTerminators

\* /(?:select|insert|update|delete|drop|create|alter)\s+.*\+.*\$/i
sql_injection(s) ==
    \E i \in 1..Len(s) : \E w \in SqlKeywords :
        /\ AtCI(s, i, w)
        /\ \E e \in (i + Len(w))..Len(s) :
              /\ \A k \in (i + Len(w))..e : s[k] \in WhiteSpace
              /\ \E j \in (e + 1)..Len(s) :
                    /\ s[j] = "+"
                    /\ NoLT(s, e + 1, j - 1)
                    /\ \E d \in (j + 1)..Len(s) : s[d] = "$" /\ NoLT(s, j + 1, d - 1)

SecretKeywords == {<<"p", "a", "s", "s", "w", "o", "r", "d">>, <<"s", "e", "c", "r", "e", "t">>, <<"k", "e", "y">>, <<"t", "o", "k", "e", "n">>, <<"a", "p", "i", "_", "k", "e", "y">>}

Quotes == {"\"", "'"}

\* /(?:password|secret|key|token|api_key)\s*[=:]\s*["'][^"']{8,}["']/i
hardcoded_secret(s) ==
    \E i \in 1..Len(s) : \E w \in SecretKeywords :
        /\ AtCI(s, i, w)
        /\ LET a == SkipWs(s, i + Len(w))
               b == SkipWs(s, a + 1)
           IN  /\ a <= Len(s)
               /\ s[a] \in {"=", ":"}
               /\ b <= Len(s)
               /\ s[b] \in Quotes
               /\ \E e \in (b + 9)..Len(s) :
                     /\ s[e] \in Quotes
                     /\ \A k \in (b + 1)..(e - 1) : s[k] \notin Quotes

\* /innerHTML|outerHTML|document\.write|eval\(/i
xss_vulnerability(s) ==
    \/ ContainsCI(s, <<"i", "n", "n", "e", "r", "h", "t", "m", "l">>)
    \/ ContainsCI(s, <<"o", "u", "t", "e", "r", "h", "t", "m", "l">>)
    \/ ContainsCI(s, <<"d", "o", "c", "u", "m", "e", "n", "t", ".", "w", "r", "i", "t", "e">>)
    \/ ContainsCI(s, <<"e", "v", "a", "l", "(">>)

\* /Math\.random\(\)|Random\(\)/i
insecure_random(s) ==
    \/ ContainsCI(s, <<"m", "a", "t", "h", ".", "r", "a", "n", "d", "o", "m", "(", ")">>)
    \/ ContainsCI(s, <<"r", "a", "n", "d", "o", "m", "(", ")">>)

\* /md5|sha1(?!256)|des(?!_ede3)/i
weak_crypto(s) ==
    \/ ContainsCI(s, <<"m", "d", "5">>)
    \/ \E i \in 1..Len(s) : AtCI(s, i, <<"s", "h", "a", "1">>) /\ ~AtCI(s, i + 4, <<"2", "5", "6">>)
    \/ \E i \in 1..Len(s) : AtCI(s, i, <<"d", "e", "s">>) /\ ~AtCI(s, i + 3, <<"_", "e", "d", "e", "3">>)

\* the position of the n-th line break of s at or after p, Len(s) + 1 when there is none
RECURSIVE NthNL(_, _, _)
NthNL(s, p, n) ==
    LET q == FirstOf(s, p, NL)
    IN  IF n <= 1 \/ q > Len(s) THEN q ELSE NthNL(s, q + 1, n - 1)

\* /for\s*\([^)]*\)\s*\{[^}]*\n.*\n.*\n.*\n.*\n.*\}/
\* after "{" come a line break not preceded by "}", four more line breaks, and a "}"
\* on the line that follows the last of them ("." matches no line terminator)
inefficient_loop(s) ==
    \E i \in 1..Len(s) :
        /\ At(s, i, <<"f", "o", "r">>)
        /\ LET a == SkipWs(s, i + 3)
               c == FirstOf(s, a + 1, ")")
               b == SkipWs(s, c + 1)
           IN  /\ a <= Len(s) /\ s[a] = "("
               /\ c <= Len(s)
               /\ b <= Len(s) /\ s[b] = "{"
               /\ \E n1 \in (b + 1)..Len(s) :
                     /\ s[n1] = NL
                     /\ \A k \in (b + 1)..(n1 - 1) : s[k] # "}"
                     /\ LET n5 == NthNL(s, n1 + 1, 4)
                        IN  /\ n5 <= Len(s)
                            /\ \A k \in (n1 + 1)..n5 : s[k] # "\r"
                            /\ \E z \in (n5 + 1)..Len(s) :
                                  s[z] = "}" /\ NoLT(s, n5 + 1, z - 1)

BlockingKeywords == {<<"s", "l", "e", "e", "p">>, <<"w", "a", "i", "t">>, <<"b", "l", "o", "c", "k">>, <<"s", "y", "n", "c", "h", "r", "o", "n", "o", "u", "s">>, <<"s", "y", "n", "c">>}

\* /(?:sleep|wait|block|synchronous|sync)\s*\(/i
blocking_operation(s) ==
    \E i \in 1..Len(s) : \E w \in BlockingKeywords :
        /\ AtCI(s, i, w)
        /\ LET a == SkipWs(s, i + Len(w)) IN a <= Len(s) /\ s[a] = "("

\* /select\s+\*\s+from|n\+1|nested\s+loop/i
inefficient_query(s) ==
    \/ \E i \in 1..Len(s) :
          /\ AtCI(s, i, <<"s", "e", "l", "e", "c", "t">>)
          /\ LET a == SkipWs(s, i + 6)
                 b == SkipWs(s, a + 1)
             IN  /\ a > i + 6 /\ a <= Len(s) /\ s[a] = "*"
                 /\ b > a + 1
                 /\ AtCI(s, b, <<"f", "r", "o", "m">>)
    \/ ContainsCI(s, <<"n", "+", "1">>)
    \/ \E i \in 1..Len(s) :
          /\ AtCI(s, i, <<"n", "e", "s", "t", "e", "d">>)
          /\ LET a == SkipWs(s, i + 6) IN a > i + 6 /\ AtCI(s, a, <<"l", "o", "o", "p">>)

\* /addEventListener|setInterval|setTimeout.*(?!clear)/i
\* ".*" runs to the end of the line, where the look-ahead (?!clear) succeeds, so
\* the third alternative matches every text that holds "setTimeout"
memory_leak(s) ==
    \/ ContainsCI(s, <<"a", "d", "d", "e", "v", "e", "n", "t", "l", "i", "s", "t", "e", "n", "e", "r">>)
    \/ ContainsCI(s, <<"s", "e", "t", "i", "n", "t", "e", "r", "v", "a", "l">>)
    \/ ContainsCI(s, <<"s", "e", "t", "t", "i", "m", "e", "o", "u", "t">>)

\* number of positions of s[a..b] holding c
CountIn(s, a, b, c) == Cardinality({k \in a..b : s[k] = c})

\* /function\s+\w+\s*\([^)]*\)\s*\{(?:[^}]*\n){20,}/
long_method(s) ==
    \E i \in 1..Len(s) :
        /\ At(s, i, <<"f", "u", "n", "c", "t", "i", "o", "n">>)
        /\ LET n == SkipWs(s, i + 8)
           IN  /\ n > i + 8
               /\ n <= Len(s)
               /\ IsWordChar(s[n])
               /\ \E e \in n..Len(s) :
                     /\ \A k \in n..e : IsWordChar(s[k])
                     /\ LET a == SkipWs(s, e + 1)
                            c == FirstOf(s, a + 1, ")")
                            b == SkipWs(s, c + 1)
                        IN  /\ a <= Len(s) /\ s[a] = "("
                            /\ c <= Len(s)
                            /\ b <= Len(s) /\ s[b] = "{"
                            /\ CountIn(s, b + 1, FirstOf(s, b + 1, "}") - 1, NL) >= 20

\* /(?<![a-zA-Z_])\d{2,}(?![a-zA-Z_])/
magic_number(s) ==
    \E i \in 1..Len(s) : \E j \in (i + 1)..Len(s) :
        /\ \A k \in i..j : s[k] \in Digits
        /\ i = 1 \/ ~IsLetterOrUnderscore(s[i - 1])
        /\ j = Len(s) \/ ~IsLetterOrUnderscore(s[j + 1])

\* /(?:copy|duplicate|repeated)/i
duplicate_code(s) ==
    \/ ContainsCI(s, <<"c", "o", "p", "y">>)
    \/ ContainsCI(s, <<"d", "u", "p", "l", "i", "c", "a", "t", "e">>)
    \/ ContainsCI(s, <<"r", "e", "p", "e", "a", "t", "e", "d">>)

NamingKeywords == {<<"t", "e", "m", "p">>, <<"t", "m", "p">>, <<"d", "a", "t", "a">>, <<"i", "n", "f", "o">>, <<"o", "b", "j">>, <<"v", "a", "r">>, <<"i", "t", "e", "m">>}

\* /\b(?:temp|tmp|data|info|obj|var|item)\d*\b/i
poor_naming(s) ==
    \E i \in 1..Len(s) : \E w \in NamingKeywords :
        /\ AtCI(s, i, w)
        /\ i = 1 \/ ~IsWordChar(s[i - 1])
        /\ \E e \in (i + Len(w) - 1)..Len(s) :
              /\ \A k \in (i + Len(w))..e : s[k] \in Digits
              /\ e = Len(s) \/ ~IsWordChar(s[e + 1])

\* /(?:fetch|axios|request|query).*(?!catch|try)/i
\* ".*" runs to the end of the line, where the look-ahead succeeds, so the
\* pattern matches every text that holds one of the four words
missing_error_handling(s) ==
    \/ ContainsCI(s, <<"f", "e", "t", "c", "h">>)
    \/ ContainsCI(s, <<"a", "x", "i", "o", "s">>)
    \/ ContainsCI(s, <<"r", "e", "q", "u", "e", "s", "t">>)
    \/ ContainsCI(s, <<"q", "u", "e", "r", "y">>)

\* RegExp.prototype.test of the pattern of the rule named type (no g flag: no state)
RegexTest(type, s) ==
    CASE type = "sql_injection" -> sql_injection(s)
      [] type = "hardcoded_secret" -> hardcoded_secret(s)
      [] type = "xss_vulnerability" -> xss_vulnerability(s)
      [] type = "insecure_random" -> insecure_random(s)
      [] type = "weak_crypto" -> weak_crypto(s)
      [] type = "inefficient_loop" -> inefficient_loop(s)
      [] type = "blocking_operation" -> blocking_operation(s)
      [] type = "inefficient_query" -> inefficient_query(s)
      [] type = "memory_leak" -> memory_leak(s)
      [] type = "long_method" -> long_method(s)
      [] type = "magic_number" -> magic_number(s)
      [] type = "duplicate_code" -> duplicate_code(s)
      [] type = "poor_naming" -> poor_naming(s)
      [] type = "missing_error_handling" -> missing_error_handling(s)

\* a rule; its regex is named by the rule type and is a RegExp object created once,
\* with lastIndex 0
Rule(t, sev, desc, sug) ==
    [type |-> t, regex |-> t, lastIndex |-> 0, severity |-> sev, description |-> desc,
     suggestion |-> sug]

initializeSecurityPatterns ==
    << Rule("sql_injection", "critical", "Potential SQL injection vulnerability",
            "Use parameterized queries or prepared statements"),
       Rule("hardcoded_secret", "high", "Hardcoded secret detected",
            "Move secrets to environment variables or secure configuration"),
       Rule("xss_vulnerability", "high", "Potential XSS vulnerability",
            "Use safe DOM manipulation methods or sanitize input"),
       Rule("insecure_random", "medium", "Insecure random number generation",
            "Use cryptographically secure random number generator"),
       Rule("weak_crypto", "medium", "Weak cryptographic algorithm",
            "Use stronger cryptographic algorithms like SHA-256 or AES") >>

initializePerformancePatterns ==
    << Rule("inefficient_loop", "medium", "Potentially inefficient loop detected",
            "Consider optimizing loop logic or using more efficient algorithms"),
       Rule("blocking_operation", "medium", "Blocking operation detected",
            "Consider using asynchronous alternatives"),
       Rule("inefficient_query", "medium", "Potentially inefficient database query",
            "Optimize query or add proper indexing"),
       Rule("memory_leak", "high", "Potential memory leak",
            "Ensure proper cleanup of event listeners and timers") >>

initializeQualityPatterns ==
    << Rule("long_method", "low", "Long method detected",
            "Consider breaking down into smaller functions"),
       Rule("magic_number", "low", "Magic number detected",
            "Consider using named constants"),
       Rule("duplicate_code", "medium", "Potential code duplication",
            "Extract common functionality into reusable functions"),
       Rule("poor_naming", "low", "Poor variable naming",
            "Use more descriptive variable names"),
       Rule("missing_error_handling", "medium", "Missing error handling",
            "Add proper error handling for external calls") >>

-----------------------------------------------------------------------------
(* DiffAnalyzer *)

\* a thrown exception, as the value of a call
Throw(name) == [thrown |-> name]

Threw(v) == "thrown" \in DOMAIN v

\* reading a property of null or undefined throws a TypeError; the mark stands
\* for that throw inside a value until the call that evaluated it ends
TypeErrorMark == "TypeError"

\* fileInfo.path
PathOf(fileInfo) == IF fileInfo.kind = "null" THEN TypeErrorMark ELSE fileInfo.path

extractLineNumber(line) == 0

RECURSIVE parseLoopNoHeaderCheck(_, _, _)
\* parseLoop without the tests for the "+++" and "---" file headers
parseLoopNoHeaderCheck(lines, k, acc) ==
    IF k > Len(lines) THEN acc
    ELSE LET line == lines[k]
         IN  parseLoopNoHeaderCheck(lines, k + 1,
                 IF startsWith(line, <<"+">>)
                 THEN [acc EXCEPT !.added = Append(@,
                          [content |-> substring(line, 1),
                           lineNumber |-> extractLineNumber(line)])]
                 ELSE IF startsWith(line, <<"-">>)
                 THEN [acc EXCEPT !.removed = Append(@,
                          [content |-> substring(line, 1),
                           lineNumber |-> extractLineNumber(line)])]
                 ELSE IF ~startsWith(line, <<"@", "@">>) /\ ~startsWith(line, <<"d", "i", "f", "f">>)
                 THEN [acc EXCEPT !.context = Append(@,
                          [content |-> line,
                           lineNumber |-> extractLineNumber(line)])]
                 ELSE acc)

RECURSIVE parseLoop(_, _, _)
\* the loop of parseDiffLines over lines[k..], acc holding added, removed and context
parseLoop(lines, k, acc) ==
    IF k > Len(lines) THEN acc
    ELSE LET line == lines[k]
         IN  parseLoop(lines, k + 1,
                 IF startsWith(line, <<"+">>) /\ ~startsWith(line, <<"+", "+", "+">>)
                 THEN [acc EXCEPT !.added = Append(@,
                          [content |-> substring(line, 1),
                           lineNumber |-> extractLineNumber(line)])]
                 ELSE IF startsWith(line, <<"-">>) /\ ~startsWith(line, <<"-", "-", "-">>)
                 THEN [acc EXCEPT !.removed = Append(@,
                          [content |-> substring(line, 1),
                           lineNumber |-> extractLineNumber(line)])]
                 ELSE IF ~startsWith(line, <<"@", "@">>) /\ ~startsWith(line, <<"d", "i", "f", "f">>)
                 THEN [acc EXCEPT !.context = Append(@,
                          [content |-> line,
                           lineNumber |-> extractLineNumber(line)])]
                 ELSE acc)

\* diffContent.split of null throws
parseDiffLines(diffContent) ==
    IF diffContent.kind = "null" THEN Throw("TypeError")
    ELSE parseLoop(split(diffContent.chars), 1,
                   [added |-> <<>>, removed |-> <<>>, context |-> <<>>])

RECURSIVE pushFirstMatch(_, _, _, _, _)
\* pushMatches leaving the loop at the first pattern that matches
pushFirstMatch(patterns, k, line, issues, fileInfo) ==
    IF k > Len(patterns) THEN issues
    ELSE LET pattern == patterns[k]
         IN  IF RegexTest(pattern.regex, line.content)
             THEN Append(issues,
                      [type |-> pattern.type,
                       severity |-> pattern.severity,
                       description |-> pattern.description,
                       line |-> line.lineNumber,
                       content |-> trim(line.content),
                       file |-> PathOf(fileInfo),
                       suggestion |-> pattern.suggestion])
             ELSE pushFirstMatch(patterns, k + 1, line, issues, fileInfo)

RECURSIVE pushMatches(_, _, _, _, _)
\* the loop shared by analyzeLineForSecurity, -Performance and -Quality over patterns[k..]
pushMatches(patterns, k, line, issues, fileInfo) ==
    IF k > Len(patterns) THEN issues
    ELSE LET pattern == patterns[k]
         IN  pushMatches(patterns, k + 1, line,
                 IF RegexTest(pattern.regex, line.content)
                 THEN Append(issues,
                          [type |-> pattern.type,
                           severity |-> pattern.severity,
                           description |-> pattern.description,
                           line |-> line.lineNumber,
                           content |-> trim(line.content),
                           file |-> PathOf(fileInfo),
                           suggestion |-> pattern.suggestion])
                 ELSE issues,
                 fileInfo)

analyzeLineForSecurity(line, securityIssues, fileInfo) ==
    pushMatches(securityPatterns, 1, line, securityIssues, fileInfo)

analyzeLineForPerformance(line, performanceIssues, fileInfo) ==
    pushMatches(performancePatterns, 1, line, performanceIssues, fileInfo)

analyzeLineForQuality(line, qualityIssues, fileInfo) ==
    pushMatches(qualityPatterns, 1, line, qualityIssues, fileInfo)

\* /error.handling/i
error_handling(s) ==
    \E i \in 1..Len(s) :
        /\ AtCI(s, i, <<"e", "r", "r", "o", "r">>)
        /\ i + 5 <= Len(s)
        /\ s[i + 5] \notin LineTerminators
        /\ AtCI(s, i + 6, <<"h", "a", "n", "d", "l", "i", "n", "g">>)

\* the sources of importantPatterns, in order
importantPatterns ==
    <<"error.handling", "validation", "security", "authentication", "authorization", "logging">>

\* pattern.test of the important pattern with this source
ImportantTest(source, s) ==
    CASE source = "error.handling" -> error_handling(s)
      [] source = "validation" -> ContainsCI(s, <<"v", "a", "l", "i", "d", "a", "t", "i", "o", "n">>)
      [] source = "security" -> ContainsCI(s, <<"s", "e", "c", "u", "r", "i", "t", "y">>)
      [] source = "authentication" -> ContainsCI(s, <<"a", "u", "t", "h", "e", "n", "t", "i", "c", "a", "t", "i", "o", "n">>)
      [] source = "authorization" -> ContainsCI(s, <<"a", "u", "t", "h", "o", "r", "i", "z", "a", "t", "i", "o", "n">>)
      [] source = "logging" -> ContainsCI(s, <<"l", "o", "g", "g", "i", "n", "g">>)

RECURSIVE removedLoop(_, _, _, _)
removedLoop(k, line, suggestions, fileInfo) ==
    IF k > Len(importantPatterns) THEN suggestions
    ELSE removedLoop(k + 1, line,
             IF ImportantTest(importantPatterns[k], line.content)
             THEN Append(suggestions,
                      [type |-> "removed_functionality",
                       severity |-> "medium",
                       description |-> <<"Important functionality may have been removed: ",
                                         importantPatterns[k]>>,
                       file |-> PathOf(fileInfo),
                       suggestion |->
                           "Verify that this functionality is replaced or no longer needed"])
             ELSE suggestions,
             fileInfo)

analyzeRemovedLine(line, analysis, fileInfo) ==
    [analysis EXCEPT !.suggestions = removedLoop(1, line, @, fileInfo)]

\* the weights of calculateRiskScore, in quarters (0.25 is 1), 0 for any other severity
securityWeight4(severity) ==
    CASE severity = "critical" -> 16
      [] severity = "high" -> 12
      [] severity = "medium" -> 8
      [] severity = "low" -> 4
      [] OTHER -> 0

performanceWeight4(severity) ==
    CASE severity = "critical" -> 12
      [] severity = "high" -> 8
      [] severity = "medium" -> 4
      [] severity = "low" -> 2
      [] OTHER -> 0

qualityWeight4(severity) ==
    CASE severity = "critical" -> 8
      [] severity = "high" -> 4
      [] severity = "medium" -> 2
      [] severity = "low" -> 1
      [] OTHER -> 0

RECURSIVE sumSecurity4(_, _, _)
sumSecurity4(issues, k, score4) ==
    IF k > Len(issues) THEN score4
    ELSE sumSecurity4(issues, k + 1, score4 + securityWeight4(issues[k].severity))

RECURSIVE sumPerformance4(_, _, _)
sumPerformance4(issues, k, score4) ==
    IF k > Len(issues) THEN score4
    ELSE sumPerformance4(issues, k + 1, score4 + performanceWeight4(issues[k].severity))

RECURSIVE sumQuality4(_, _, _)
sumQuality4(issues, k, score4) ==
    IF k > Len(issues) THEN score4
    ELSE sumQuality4(issues, k + 1, score4 + qualityWeight4(issues[k].severity))

\* Math.floor in the place of Math.round
MathFloor4(score4) == score4 \div 4

\* Math.round of a non-negative number of quarters: floor(x + 0.5)
MathRound4(score4) == (score4 + 2) \div 4

MathMin(a, b) == IF a <= b THEN a ELSE b

\* calculateRiskScore without Math.min(10, ...)
calculateRiskScoreUnclamped(analysis) ==
    MathRound4(sumQuality4(analysis.quality, 1,
                   sumPerformance4(analysis.performance, 1,
                       sumSecurity4(analysis.security, 1, 0))))

\* every weight is a multiple of 0.25, which binary floating point adds exactly
calculateRiskScore(analysis) ==
    LET score4 == sumQuality4(analysis.quality, 1,
                      sumPerformance4(analysis.performance, 1,
                          sumSecurity4(analysis.security, 1, 0)))
    IN  MathMin(10, MathRound4(score4))

securitySuggestion(analysis) ==
    IF Len(analysis.security) > 0
    THEN << [type |-> "security_review",
             priority |-> "high",
             description |-> "Security review recommended due to potential vulnerabilities",
             action |-> "Have a security expert review the changes"] >>
    ELSE <<>>

\* performanceSuggestion with the threshold off by one (>= 2)
performanceSuggestionFromTwo(analysis) ==
    IF Len(analysis.performance) >= 2
    THEN << [type |-> "performance_testing",
             priority |-> "medium",
             description |->
                 "Performance testing recommended due to multiple performance concerns",
             action |-> "Run performance tests before merging"] >>
    ELSE <<>>

performanceSuggestion(analysis) ==
    IF Len(analysis.performance) > 2
    THEN << [type |-> "performance_testing",
             priority |-> "medium",
             description |->
                 "Performance testing recommended due to multiple performance concerns",
             action |-> "Run performance tests before merging"] >>
    ELSE <<>>

qualitySuggestion(analysis) ==
    IF Len(analysis.quality) > 5
    THEN << [type |-> "code_refactoring",
             priority |-> "low",
             description |-> "Consider refactoring to improve code quality",
             action |-> "Address code quality issues in a follow-up PR"] >>
    ELSE <<>>

generateSuggestions(analysis, fileInfo) ==
    securitySuggestion(analysis) \o performanceSuggestion(analysis) \o qualitySuggestion(analysis)

\* the analysis object analyzeDiff starts from
emptyAnalysis ==
    [security |-> <<>>, performance |-> <<>>, quality |-> <<>>, suggestions |-> <<>>,
     riskScore |-> 0]

\* analyzeDiff without its guard on diffContent
NeverFalsy(diffContent) == FALSE

\* !diffContent: null, undefined and the empty string are falsy
Falsy(diffContent) ==
    diffContent.kind = "null" \/ (diffContent.kind = "string" /\ diffContent.chars = <<>>)

RECURSIVE addedLoop(_, _, _, _)
\* the loop of analyzeDiff over diffLines.added[k..]
addedLoop(added, k, analysis, fileInfo) ==
    IF k > Len(added) THEN analysis
    ELSE addedLoop(added, k + 1,
             [analysis EXCEPT
                 !.security = analyzeLineForSecurity(added[k], @, fileInfo),
                 !.performance = analyzeLineForPerformance(added[k], @, fileInfo),
                 !.quality = analyzeLineForQuality(added[k], @, fileInfo)],
             fileInfo)

RECURSIVE removedLinesLoop(_, _, _, _)
\* the loop of analyzeDiff over diffLines.removed[k..]
removedLinesLoop(removed, k, analysis, fileInfo) ==
    IF k > Len(removed) THEN analysis
    ELSE removedLinesLoop(removed, k + 1,
             analyzeRemovedLine(removed[k], analysis, fileInfo), fileInfo)

\* the analysis object of analyzeDiff when both loops have run (before the score is set)
afterLoops(diffLines, fileInfo) ==
    removedLinesLoop(diffLines.removed, 1,
        addedLoop(diffLines.added, 1, emptyAnalysis, fileInfo), fileInfo)

\* some issue or suggestion was built by reading fileInfo.path of a null fileInfo
ReadNullPath(analysis) ==
    \E f \in {"security", "performance", "quality", "suggestions"} :
        \E i \in 1..Len(analysis[f]) : analysis[f][i].file = TypeErrorMark

withScore(analysis) == [analysis EXCEPT !.riskScore = calculateRiskScore(analysis)]

withSuggestions(analysis, fileInfo) ==
    [analysis EXCEPT !.suggestions = generateSuggestions(analysis, fileInfo)]

\* analyzeDiff: ret is what it returns or throws, scan is analysis.suggestions as
\* the removed-line loop leaves it (empty when the call ends before the loop)
analyzeDiffRun(diffContent, fileInfo) ==
    IF Falsy(diffContent) THEN [ret |-> emptyAnalysis, scan |-> <<>>]
    ELSE LET diffLines == parseDiffLines(diffContent)
         IN  IF Threw(diffLines) THEN [ret |-> diffLines, scan |-> <<>>]
             ELSE LET scanned == afterLoops(diffLines, fileInfo)
                  IN  [ret |-> IF ReadNullPath(scanned) THEN Throw("TypeError")
                               ELSE withSuggestions(withScore(scanned), fileInfo),
                       scan |-> scanned.suggestions]

analyzeDiff(diffContent, fileInfo) == analyzeDiffRun(diffContent, fileInfo).ret

\* lastIndex of the regex of a rule after test(content), were the regex global:
\* past the match (here the end of the line), or 0 on a miss
lastIndexAfterGlobalTest(pattern, content) ==
    IF RegexTest(pattern.regex, content) THEN Len(content) ELSE 0

\* lastIndex of the regex of a rule after test(content): no pattern of the three
\* rule sets has the g or the y flag, and test writes lastIndex only with one of them
lastIndexAfterTest(pattern, content) == pattern.lastIndex

RECURSIVE testedOn(_, _, _)
\* a rule set after each of its patterns was tested on the lines added[k..]
testedOn(patterns, added, k) ==
    IF k > Len(added) THEN patterns
    ELSE testedOn([i \in 1..Len(patterns) |->
                      [patterns[i] EXCEPT
                          !.lastIndex = lastIndexAfterTest(patterns[i], added[k].content)]],
                  added, k + 1)

\* a rule set as analyzeDiff leaves it: the call reads the set in
\* analyzeLineForSecurity, -Performance and -Quality and assigns nothing to it
patternsAfter(patterns, diffContent) ==
    IF Falsy(diffContent) THEN patterns
    ELSE LET diffLines == parseDiffLines(diffContent)
         IN  IF Threw(diffLines) THEN patterns ELSE testedOn(patterns, diffLines.added, 1)

-----------------------------------------------------------------------------
(* The inputs the calls are made with *)

\* longest diff, in lines
MaxLines == 2

\* most issues handed to calculateRiskScore, over the three lists
MaxIssues == 3

\* most security, performance and quality issues handed to generateSuggestions
MaxSecurity == 2

MaxPerformance == 4

MaxQuality == 7

\* the added line of spec scenario A
ScenarioA == <<"+", " ", "c", "o", "n", "s", "t", " ", "q", "u", "e", "r", "y", " ", "=", " ", "\"", "S", "E", "L", "E", "C", "T", " ", "*", " ", "F", "R", "O", "M", " ", "u", "s", "e", "r", "s", " ", "W", "H", "E", "R", "E", " ", "i", "d", "=", "\"", " ", "+", " ", "u", "s", "e", "r", "I", "d", ";">>

DiffLinesPool ==
    { ScenarioA,
      <<"+", " ", "q", " ", "=", " ", "\"", "d", "e", "l", "e", "t", "e", " ", "f", "r", "o", "m", " ", "t", " ", "w", "h", "e", "r", "e", " ", "i", "d", "=", "\"", " ", "+", " ", "$", "i", "d", ";">>,
      <<"+", " ", "e", "v", "a", "l", "(", "t", "m", "p", "1", ")", " ">>,
      <<"+", " ", "m", "d", "5", "(", "M", "a", "t", "h", ".", "r", "a", "n", "d", "o", "m", "(", ")", ")">>,
      <<"-", " ", "e", "v", "a", "l", "(", "t", "m", "p", "1", ")", " ">>,
      <<"-", " ", "v", "a", "l", "i", "d", "a", "t", "i", "o", "n", " ", "o", "f", " ", "l", "o", "g", "g", "i", "n", "g">>,
      <<" ", " ", "x", " ", "=", " ", "1">>,
      <<"+", "+", "+", " ", "b", "/", "e", "v", "a", "l", "(", "x", ")">>,
      <<"-", "-", "-", " ", "a", "/", "l", "o", "g", "g", "i", "n", "g">>,
      <<"@", "@", " ", "-", "1", " ", "+", "1", " ", "@", "@">>,
      <<"d", "i", "f", "f", " ", "-", "-", "g", "i", "t", " ", "e", "v", "a", "l", "(", "x", ")">>,
      <<>> }

\* the diff texts: null, and the texts of at most MaxLines lines of the pool
DiffInputs ==
    {Null} \cup
    {Str(JoinLines(ls)) : ls \in UNION {[1..n -> DiffLinesPool] : n \in 0..MaxLines}}

FileInfos == {Null, [kind |-> "object", path |-> "src/a.js"]}

\* severities an issue may carry, the last one unrecognized
Severities == {"critical", "high", "medium", "low", "info"}

SomeIssue(sev) == [type |-> "some_type", severity |-> sev]

\* the analyses whose three issue lists hold n issues in all
ScoreInputs(n) ==
    { [security |-> [i \in 1..a |-> SomeIssue(f[i])],
       performance |-> [i \in 1..b |-> SomeIssue(f[a + i])],
       quality |-> [i \in 1..(n - a - b) |-> SomeIssue(f[a + b + i])],
       suggestions |-> <<>>,
       riskScore |-> 0] :
      <<a, b, f>> \in { <<a, b, f>> \in (0..n) \X (0..n) \X [1..n -> Severities] : a + b <= n } }

\* the analysis whose lists hold s, p and q issues
CountInput(s, p, q) ==
    [security |-> [i \in 1..s |-> SomeIssue("high")],
     performance |-> [i \in 1..p |-> SomeIssue("medium")],
     quality |-> [i \in 1..q |-> SomeIssue("low")],
     suggestions |-> <<>>,
     riskScore |-> 0]

-----------------------------------------------------------------------------
(* The analyzer and its caller *)

NoCall == [method |-> "none"]

NoValue == [kind |-> "none"]

InitAnalyzer ==
    /\ securityPatterns = initializeSecurityPatterns
    /\ performancePatterns = initializePerformancePatterns
    /\ qualityPatterns = initializeQualityPatterns
    /\ pc = "idle"
    /\ call = NoCall
    /\ ret = NoValue
    /\ scan = <<>>

CallAnalyzeDiff ==
    /\ pc = "idle"
    /\ \E d \in DiffInputs : \E f \in FileInfos :
          /\ call' = [method |-> "analyzeDiff", diffContent |-> d, fileInfo |-> f]
          /\ LET run == analyzeDiffRun(d, f)
             IN  ret' = run.ret /\ scan' = run.scan
          /\ securityPatterns' = patternsAfter(securityPatterns, d)
          /\ performancePatterns' = patternsAfter(performancePatterns, d)
          /\ qualityPatterns' = patternsAfter(qualityPatterns, d)
    /\ pc' = "done"
    /\ UNCHANGED clientVars
    /\ UNCHANGED formatterVars
    /\ UNCHANGED lateVars

\* the diff texts of the further calls: null, the empty text, one added line and
\* an added line followed by a removed one
RepeatInputs ==
    {Null, Str(<<>>), Str(ScenarioA),
     Str(JoinLines(<< <<"+", " ", "e", "v", "a", "l", "(", "t", "m", "p", "1", ")", " ">>,
                      <<"-", " ", "v", "a", "l", "i", "d", "a", "t", "i", "o", "n", " ", "o", "f", " ", "l", "o", "g", "g", "i", "n", "g">> >>))}

\* a further analyzeDiff call on the analyzer that has served one
CallAnalyzeDiffAgain ==
    /\ pc \in {"done", "again"}
    /\ call.method = "analyzeDiff"
    /\ \E d \in RepeatInputs : \E f \in FileInfos :
          /\ call' = [method |-> "analyzeDiff", diffContent |-> d, fileInfo |-> f]
          /\ LET run == analyzeDiffRun(d, f)
             IN  ret' = run.ret /\ scan' = run.scan
          /\ securityPatterns' = patternsAfter(securityPatterns, d)
          /\ performancePatterns' = patternsAfter(performancePatterns, d)
          /\ qualityPatterns' = patternsAfter(qualityPatterns, d)
    /\ pc' = "again"
    /\ UNCHANGED clientVars
    /\ UNCHANGED formatterVars
    /\ UNCHANGED lateVars

CallParseDiffLines ==
    /\ pc = "idle"
    /\ \E d \in DiffInputs :
          /\ call' = [method |-> "parseDiffLines", diffContent |-> d]
          /\ ret' = parseDiffLines(d)
    /\ pc' = "done"
    /\ UNCHANGED <<securityPatterns, performancePatterns, qualityPatterns, scan>>
    /\ UNCHANGED clientVars
    /\ UNCHANGED formatterVars
    /\ UNCHANGED lateVars

CallCalculateRiskScore ==
    /\ pc = "idle"
    /\ \E n \in 0..MaxIssues : \E a \in ScoreInputs(n) :
          /\ call' = [method |-> "calculateRiskScore", analysis |-> a]
          /\ ret' = [value |-> calculateRiskScore(a)]
    /\ pc' = "done"
    /\ UNCHANGED <<securityPatterns, performancePatterns, qualityPatterns, scan>>
    /\ UNCHANGED clientVars
    /\ UNCHANGED formatterVars
    /\ UNCHANGED lateVars

CallGenerateSuggestions ==
    /\ pc = "idle"
    /\ \E s \in 0..MaxSecurity : \E p \in 0..MaxPerformance : \E q \in 0..MaxQuality :
       \E f \in FileInfos :
          /\ call' = [method |-> "generateSuggestions", analysis |-> CountInput(s, p, q),
                      fileInfo |-> f]
          /\ ret' = [value |-> generateSuggestions(CountInput(s, p, q), f)]
    /\ pc' = "done"
    /\ UNCHANGED <<securityPatterns, performancePatterns, qualityPatterns, scan>>
    /\ UNCHANGED clientVars
    /\ UNCHANGED formatterVars
    /\ UNCHANGED lateVars

InitClient ==
    /\ mk = "method"
    /\ cpc = "idle"
    /\ cop = NoCall
    /\ attempt = 0
    /\ delay = 0
    /\ lastError = NoValue
    /\ history = <<>>
    /\ sent = <<>>
    /\ slept = <<>>
    /\ cret = NoValue
    /\ res = NoValue

\* the formatter as constructed, no call made
InitFormatter ==
    /\ fpc = "idle"
    /\ fcall = NoCall
    /\ fret = <<>>

\* no stand-alone function called
InitUtility ==
    /\ ucall = NoCall
    /\ uret = NoValue

\* Logger.levels
levels == [error |-> 0, warn |-> 1, info |-> 2, debug |-> 3]

\* options.level || process.env.LOG_LEVEL || 'info': an absent field is undefined
constructorLevel(options, env) ==
    IF "level" \in DOMAIN options /\ options.level # "" THEN options.level
    ELSE IF "LOG_LEVEL" \in DOMAIN env /\ env.LOG_LEVEL # "" THEN env.LOG_LEVEL
    ELSE "info"

\* this.levels[this.level] || this.levels.info: undefined and 0 are falsy
constructorCurrentLevel(level) ==
    IF level \in DOMAIN levels /\ levels[level] # 0 THEN levels[level] ELSE levels.info

\* the logger the module exports: new Logger() with LOG_LEVEL unset
InitLogger ==
    /\ loggerLevel = constructorLevel(<<>>, <<>>)
    /\ currentLevel = constructorCurrentLevel(constructorLevel(<<>>, <<>>))
    /\ output = <<>>
    /\ logged = <<>>

\* no request received
InitWebhook ==
    /\ wpc = "idle"
    /\ wreq = NoValue
    /\ hostCalls = <<>>
    /\ responses = <<>>

\* createCircuitBreaker not called yet
InitBreaker ==
    /\ bpc = "none"
    /\ failureThreshold = 0
    /\ recoveryTimeout = 0
    /\ state = "none"
    /\ failureCount = 0
    /\ lastFailureTime = 0
    /\ successCount = 0
    /\ now = 0
    /\ inflight = <<>>
    /\ completed = <<>>

Init ==
    /\ InitAnalyzer /\ InitClient /\ InitFormatter
    /\ InitUtility /\ InitLogger /\ InitWebhook /\ InitBreaker

\* a caller of analyzeDiff and of parseDiffLines
NextDiff ==
    \/ CallAnalyzeDiff
    \/ CallParseDiffLines

SpecDiff == Init /\ [][NextDiff]_vars

\* a caller of calculateRiskScore and of generateSuggestions
NextScore ==
    \/ CallCalculateRiskScore
    \/ CallGenerateSuggestions

SpecScore == Init /\ [][NextScore]_vars

\* a caller of any of the four methods
NextAnalyzer ==
    \/ NextDiff
    \/ NextScore

SpecAnalyzer == Init /\ [][NextAnalyzer]_vars

\* a caller that keeps calling analyzeDiff on one analyzer
NextRepeat ==
    \/ CallAnalyzeDiff
    \/ CallAnalyzeDiffAgain

SpecRepeat == Init /\ [][NextRepeat]_vars

-----------------------------------------------------------------------------
(* ErrorHandler and AzureDevOpsClient *)

\* a value is missing when it is undefined, null or the empty string
IsMissing(v) == v \in {"undefined", "null", ""}

RECURSIVE missingFields(_, _, _, _)
\* the loop of validateRequired over requiredFields[k..]
missingFields(data, requiredFields, k, missing) ==
    IF k > Len(requiredFields) THEN missing
    ELSE missingFields(data, requiredFields, k + 1,
             IF IsMissing(data[requiredFields[k]])
             THEN Append(missing, requiredFields[k])
             ELSE missing)

\* ErrorHandler.validateRequired: the ValidationError it throws, NoValue when it returns
validateRequired(data, requiredFields) ==
    LET missing == missingFields(data, requiredFields, 1, <<>>)
    IN  IF Len(missing) > 0
        THEN [thrown |-> "ValidationError", statusCode |-> 400, code |-> "VALIDATION_ERROR",
              missingFields |-> missing]
        ELSE NoValue

\* the defaults of ErrorHandler.retry
defaultMaxAttempts == 3

defaultInitialDelay == 1000

defaultMaxDelay == 10000

defaultBackoffFactor == 2

\* retryCondition: (error) => error.statusCode >= 500; an error without a
\* statusCode compares false
statusAtLeast500(error) == "statusCode" \in DOMAIN error /\ error.statusCode >= 500

\* the options getPullRequest hands to ErrorHandler.retry, the rest being defaults
getPullRequestOptions ==
    [maxAttempts |-> 3, initialDelay |-> defaultInitialDelay, maxDelay |-> defaultMaxDelay,
     backoffFactor |-> defaultBackoffFactor, retryCondition |-> "statusCode >= 500"]

\* the options createPullRequestThread hands to ErrorHandler.retry
createPullRequestThreadOptions ==
    [maxAttempts |-> 2, initialDelay |-> defaultInitialDelay, maxDelay |-> defaultMaxDelay,
     backoffFactor |-> defaultBackoffFactor, retryCondition |-> "statusCode >= 500"]

\* the retryCondition of the options applied to an error: the one of the client
\* operations, () => false of a caller, or the default () => true
retryCondition(options, error) ==
    IF options.retryCondition = "statusCode >= 500" THEN statusAtLeast500(error)
    ELSE IF options.retryCondition = "() => false" THEN FALSE
    ELSE TRUE

\* the loop of ErrorHandler.retry that stops at the last attempt only
retryBreaksAtLastAttemptOnly(att, options, error) == att = options.maxAttempts

\* ErrorHandler.retry: attempt === maxAttempts || !retryCondition(error)
retryBreaks(att, options, error) ==
    att = options.maxAttempts \/ ~retryCondition(options, error)

\* ErrorHandler.withTimeout returns a function and makeRequest returns that
\* function without calling it: the promise of makeRequest is fulfilled with the
\* function, and the executor that calls https.request never runs
makeRequest(method, endpoint) == [resolved |-> "function"]

\* what a replacement of client.makeRequest may settle with: a response, or an
\* error with or without a status code
ReplacementOutcomes ==
    { [resolved |-> "response"],
      [thrown |-> "AzureDevOpsError", statusCode |-> 404],
      [thrown |-> "AzureDevOpsError", statusCode |-> 500],
      [thrown |-> "AzureDevOpsError", statusCode |-> 503],
      [thrown |-> "Error"] }

\* what this.makeRequest(method, endpoint) may settle with
MakeRequestOutcomes(method, endpoint) ==
    IF mk = "method" THEN {makeRequest(method, endpoint)} ELSE ReplacementOutcomes

\* what fn() may settle with in ErrorHandler.retry: the function is the caller's
\* own, or the arrow function of a client operation calling this.makeRequest
FnOutcomes ==
    IF cop.method = "retry" THEN ReplacementOutcomes
    ELSE MakeRequestOutcomes(cop.verb, cop.endpoint)

ParamValues == {"x", "undefined", "null", ""}

Params == [project : ParamValues, repositoryId : ParamValues, pullRequestId : ParamValues]

\* the arguments of getFileContent
FileParams ==
    [project : ParamValues, repositoryId : ParamValues, filePath : {"x"},
     commitId : {"x", "undefined"}]

\* client.makeRequest = jest.fn()...: a caller replaces the method on the object
ReplaceMakeRequest ==
    /\ cpc = "idle"
    /\ mk = "method"
    /\ mk' = "replaced"
    /\ UNCHANGED <<cpc, cop, attempt, delay, lastError, history, sent, slept, cret>>
    /\ UNCHANGED res
    /\ UNCHANGED analyzerVars
    /\ UNCHANGED formatterVars
    /\ UNCHANGED lateVars

\* getPullRequest up to the first call of fn in ErrorHandler.retry
CallGetPullRequest ==
    /\ cpc = "idle"
    /\ \E p \in Params :
          LET v == validateRequired(p, <<"project", "repositoryId", "pullRequestId">>)
          IN  IF Threw(v)
              THEN /\ cop' = [method |-> "getPullRequest", params |-> p]
                   /\ cret' = v
                   /\ cpc' = "done"
                   /\ UNCHANGED <<attempt, delay>>
              ELSE /\ cop' = [method |-> "getPullRequest", params |-> p,
                              verb |-> "GET", endpoint |-> "pullrequests",
                              options |-> getPullRequestOptions]
                   /\ attempt' = 1
                   /\ delay' = getPullRequestOptions.initialDelay
                   /\ cpc' = "retry_call"
                   /\ UNCHANGED cret
    /\ UNCHANGED <<mk, lastError, history, sent, slept>>
    /\ UNCHANGED res
    /\ UNCHANGED analyzerVars
    /\ UNCHANGED formatterVars
    /\ UNCHANGED lateVars

\* getPullRequestChanges up to its call of makeRequest
CallGetPullRequestChanges ==
    /\ cpc = "idle"
    /\ \E p \in Params :
          cop' = [method |-> "getPullRequestChanges", params |-> p, iterationId |-> 1,
                  verb |-> "GET", endpoint |-> "changes"]
    /\ cpc' = "request"
    /\ UNCHANGED <<mk, attempt, delay, lastError, history, sent, slept, cret>>
    /\ UNCHANGED res
    /\ UNCHANGED analyzerVars
    /\ UNCHANGED formatterVars
    /\ UNCHANGED lateVars

\* getFileContent up to its call of makeRequest
CallGetFileContent ==
    /\ cpc = "idle"
    /\ \E p \in FileParams :
          cop' = [method |-> "getFileContent", params |-> p,
                  verb |-> "GET", endpoint |-> "items"]
    /\ cpc' = "request"
    /\ UNCHANGED <<mk, attempt, delay, lastError, history, sent, slept, cret>>
    /\ UNCHANGED res
    /\ UNCHANGED analyzerVars
    /\ UNCHANGED formatterVars
    /\ UNCHANGED lateVars

\* return this.makeRequest(...): the operation settles as makeRequest does
RequestSettles ==
    /\ cpc = "request"
    /\ \E o \in MakeRequestOutcomes(cop.verb, cop.endpoint) :
          /\ history' = Append(history, o)
          /\ cret' = o
    /\ cpc' = "done"
    /\ UNCHANGED <<mk, cop, attempt, delay, lastError, sent, slept>>
    /\ UNCHANGED res
    /\ UNCHANGED analyzerVars
    /\ UNCHANGED formatterVars
    /\ UNCHANGED lateVars

\* ErrorHandler.retry: return await fn() returns
RetryCallSucceeds ==
    /\ cpc = "retry_call"
    /\ \E o \in FnOutcomes :
          /\ ~Threw(o)
          /\ history' = Append(history, o)
          /\ cret' = o
    /\ cpc' = "done"
    /\ UNCHANGED <<mk, cop, attempt, delay, lastError, sent, slept>>
    /\ UNCHANGED res
    /\ UNCHANGED analyzerVars
    /\ UNCHANGED formatterVars
    /\ UNCHANGED lateVars

\* ErrorHandler.retry: await fn() throws; the catch block runs up to the sleep,
\* or breaks out of the loop to throw lastError
RetryCallFails ==
    /\ cpc = "retry_call"
    /\ \E o \in FnOutcomes :
          /\ Threw(o)
          /\ history' = Append(history, o)
          /\ lastError' = o
          /\ IF retryBreaks(attempt, cop.options, o)
             THEN cret' = o /\ cpc' = "done"
             ELSE cpc' = "retry_sleep" /\ UNCHANGED cret
    /\ UNCHANGED <<mk, cop, attempt, delay, sent, slept>>
    /\ UNCHANGED res
    /\ UNCHANGED analyzerVars
    /\ UNCHANGED formatterVars
    /\ UNCHANGED lateVars

\* ErrorHandler.retry: the sleep ends, delay grows and the loop goes round
RetrySleepEnds ==
    /\ cpc = "retry_sleep"
    /\ slept' = Append(slept, delay)
    /\ delay' = MathMin(delay * cop.options.backoffFactor, cop.options.maxDelay)
    /\ attempt' = attempt + 1
    /\ cpc' = "retry_call"
    /\ UNCHANGED <<mk, cop, lastError, history, sent, cret>>
    /\ UNCHANGED res
    /\ UNCHANGED analyzerVars
    /\ UNCHANGED formatterVars
    /\ UNCHANGED lateVars

\* threadData values: missing ones, the string forms standing for an object
\* with no comments, with comments that is no array, with none and with one
ThreadDataValues ==
    {"undefined", "null", "", "{}", "{comments: 'c'}", "{comments: []}", "{comments: [c]}"}

\* !threadData.comments || !Array.isArray(threadData.comments) ||
\* threadData.comments.length === 0
lacksComments(threadData) == threadData # "{comments: [c]}"

\* new AzureDevOpsError(message, statusCode)
AzureDevOpsError(message, statusCode) ==
    [thrown |-> "AzureDevOpsError", statusCode |-> statusCode,
     code |-> "AZURE_DEVOPS_ERROR", message |-> message]

\* new AppError(message, statusCode, code)
AppError(message, statusCode, code) ==
    [thrown |-> "AppError", statusCode |-> statusCode, code |-> code, message |-> message]

\* createPullRequestThread up to the first call of fn in ErrorHandler.retry
CallCreatePullRequestThread ==
    /\ cpc = "idle"
    /\ \E p \in Params, td \in ThreadDataValues :
          LET data == [project |-> p.project, repositoryId |-> p.repositoryId,
                       pullRequestId |-> p.pullRequestId, threadData |-> td]
              v == validateRequired(data,
                       <<"project", "repositoryId", "pullRequestId", "threadData">>)
          IN  IF Threw(v)
              THEN /\ cop' = [method |-> "createPullRequestThread", params |-> data]
                   /\ cret' = v
                   /\ cpc' = "done"
                   /\ UNCHANGED <<attempt, delay>>
              ELSE IF lacksComments(td)
              THEN /\ cop' = [method |-> "createPullRequestThread", params |-> data]
                   /\ cret' = AzureDevOpsError(
                                  "Thread data must contain at least one comment", 400)
                   /\ cpc' = "done"
                   /\ UNCHANGED <<attempt, delay>>
              ELSE /\ cop' = [method |-> "createPullRequestThread", params |-> data,
                              verb |-> "POST", endpoint |-> "threads",
                              options |-> createPullRequestThreadOptions]
                   /\ attempt' = 1
                   /\ delay' = createPullRequestThreadOptions.initialDelay
                   /\ cpc' = "retry_call"
                   /\ UNCHANGED cret
    /\ UNCHANGED <<mk, lastError, history, sent, slept, res>>
    /\ UNCHANGED analyzerVars
    /\ UNCHANGED formatterVars
    /\ UNCHANGED lateVars

\* updatePullRequestThread up to its call of makeRequest
CallUpdatePullRequestThread ==
    /\ cpc = "idle"
    /\ \E p \in Params, td \in {"undefined", "{comments: [c]}"} :
          cop' = [method |-> "updatePullRequestThread",
                  params |-> [project |-> p.project, repositoryId |-> p.repositoryId,
                              pullRequestId |-> p.pullRequestId, threadData |-> td],
                  threadId |-> 1, verb |-> "PATCH", endpoint |-> "threads/1"]
    /\ cpc' = "request"
    /\ UNCHANGED <<mk, attempt, delay, lastError, history, sent, slept, cret, res>>
    /\ UNCHANGED analyzerVars
    /\ UNCHANGED formatterVars
    /\ UNCHANGED lateVars

\* largest maxAttempts a caller of ErrorHandler.retry passes
MaxAttempts == 3

\* the options a caller passes to ErrorHandler.retry: maxAttempts from -1 on, an
\* initialDelay below and above maxDelay, a maxDelay the second delay reaches or
\* not, a backoffFactor of 1, 2 or 3
RetryOptions ==
    [maxAttempts : (-1)..MaxAttempts,
     initialDelay : {defaultInitialDelay, 2 * defaultMaxDelay},
     maxDelay : {defaultMaxDelay, defaultInitialDelay + 500},
     backoffFactor : {1, defaultBackoffFactor, 3},
     retryCondition : {"() => true", "() => false", "statusCode >= 500"}]

\* ErrorHandler.retry(fn, options) called with a function of the caller's, up to
\* the first call of fn; with maxAttempts below 1 the loop body never runs and
\* lastError, still undefined, is thrown
CallRetry ==
    /\ cpc = "idle"
    /\ \E o \in RetryOptions :
          /\ cop' = [method |-> "retry", options |-> o, verb |-> "fn", endpoint |-> "fn"]
          /\ delay' = o.initialDelay
          /\ attempt' = 1
          /\ IF 1 <= o.maxAttempts
             THEN cpc' = "retry_call" /\ UNCHANGED cret
             ELSE cpc' = "done" /\ cret' = [thrown |-> "undefined"]
    /\ UNCHANGED <<mk, lastError, history, sent, slept, res>>
    /\ UNCHANGED analyzerVars
    /\ UNCHANGED formatterVars
    /\ UNCHANGED lateVars

\* options.timeout of makeRequest, the socket timeout and the delay of withTimeout
requestTimeout == 30000

\* the HTTP statuses the host answers with
Statuses == {200, 204, 400, 404, 429, 500, 503}

\* the response bodies: JSON text, no text at all, text JSON.parse rejects
Bodies == {"json", "empty", "malformed"}

\* res.on('end'): how the promise of the request settles for a response
responseEnd(statusCode, body) ==
    IF body = "malformed"
    THEN AzureDevOpsError("Failed to parse response", 500)
    ELSE IF statusCode >= 200 /\ statusCode < 300
    THEN [resolved |-> "response", body |-> body]
    ELSE AzureDevOpsError("API request failed", statusCode)

\* a caller calls the function makeRequest resolved with, as the callers of
\* ErrorHandler.withTimeout do: Promise.race starts, fn() hands the request to
\* https.request and the timer of withTimeout is set
InvokeRequestFunction ==
    /\ cpc = "done"
    /\ cret = [resolved |-> "function"]
    /\ cop' = [method |-> "requestFunction", verb |-> cop.verb, endpoint |-> cop.endpoint,
               timeout |-> requestTimeout]
    /\ sent' = Append(sent, cop.verb)
    /\ cpc' = "pending"
    /\ cret' = NoValue
    /\ UNCHANGED <<mk, attempt, delay, lastError, history, slept, res>>
    /\ UNCHANGED analyzerVars
    /\ UNCHANGED formatterVars
    /\ UNCHANGED lateVars

\* res.on('end') before the deadline: the response is complete
ResponseEnds ==
    /\ cpc = "pending"
    /\ \E statusCode \in Statuses, body \in Bodies :
          /\ res' = [event |-> "end", statusCode |-> statusCode, body |-> body]
          /\ cret' = responseEnd(statusCode, body)
    /\ cpc' = "done"
    /\ UNCHANGED <<mk, cop, attempt, delay, lastError, history, sent, slept>>
    /\ UNCHANGED analyzerVars
    /\ UNCHANGED formatterVars
    /\ UNCHANGED lateVars

\* req.on('error') before the deadline: the transport failed
RequestError ==
    /\ cpc = "pending"
    /\ res' = [event |-> "error"]
    /\ cret' = AzureDevOpsError("Request failed", 500)
    /\ cpc' = "done"
    /\ UNCHANGED <<mk, cop, attempt, delay, lastError, history, sent, slept>>
    /\ UNCHANGED analyzerVars
    /\ UNCHANGED formatterVars
    /\ UNCHANGED lateVars

\* the timeout elapses with the response not complete: the socket timeout and
\* the timer of withTimeout, both of requestTimeout ms, are due
DeadlineElapses ==
    /\ cpc = "pending"
    /\ cpc' = "deadline"
    /\ UNCHANGED <<mk, cop, attempt, delay, lastError, history, sent, slept, cret, res>>
    /\ UNCHANGED analyzerVars
    /\ UNCHANGED formatterVars
    /\ UNCHANGED lateVars

\* req.on('timeout') runs first: the promise of fn() is rejected and settles the race
SocketTimeout ==
    /\ cpc = "deadline"
    /\ res' = [event |-> "timeout"]
    /\ cret' = AzureDevOpsError("Request timeout", 408)
    /\ cpc' = "done"
    /\ UNCHANGED <<mk, cop, attempt, delay, lastError, history, sent, slept>>
    /\ UNCHANGED analyzerVars
    /\ UNCHANGED formatterVars
    /\ UNCHANGED lateVars

\* the callback of setTimeout in withTimeout runs first and settles the race
TimeoutTimerFires ==
    /\ cpc = "deadline"
    /\ res' = [event |-> "timer"]
    /\ cret' = AppError("Operation timed out", 408, "TIMEOUT")
    /\ cpc' = "done"
    /\ UNCHANGED <<mk, cop, attempt, delay, lastError, history, sent, slept>>
    /\ UNCHANGED analyzerVars
    /\ UNCHANGED formatterVars
    /\ UNCHANGED lateVars

NextClient ==
    \/ ReplaceMakeRequest
    \/ CallGetPullRequest
    \/ CallGetPullRequestChanges
    \/ CallGetFileContent
    \/ RequestSettles
    \/ RetryCallSucceeds
    \/ RetryCallFails
    \/ RetrySleepEnds
    \/ CallCreatePullRequestThread
    \/ CallUpdatePullRequestThread
    \/ CallRetry
    \/ InvokeRequestFunction
    \/ ResponseEnds
    \/ RequestError
    \/ DeadlineElapses
    \/ SocketTimeout
    \/ TimeoutTimerFires

SpecClient == Init /\ [][NextClient]_vars

-----------------------------------------------------------------------------
(* ReportFormatter. A report is kept as its lines, a line as the pieces the      *)
(* template puts side by side; a field the data lacks is undefined               *)

\* a field of the data that is undefined
Has(data, f) == f \in DOMAIN data

\* data.f || dflt, for a field holding text
TextOr(data, f, dflt) == IF Has(data, f) /\ data[f] # "" THEN data[f] ELSE dflt

\* data.f || 0, for a field holding a number
NumberOr0(data, f) == IF Has(data, f) THEN data[f] ELSE 0

\* data.f || [], for a field holding a list
ListOr(data, f) == IF Has(data, f) THEN data[f] ELSE <<>>

\* data.f && data.f.length > 0
NonEmptyList(data, f) == Has(data, f) /\ Len(data[f]) > 0

\* new Date().toISOString() at this clock value
toISOString(clock) == <<clock.date, "T", clock.time>>

\* String.prototype.toLowerCase
toLowerCase(s) == [i \in 1..Len(s) |-> Lower(s[i])]

\* type.replace(/_/g, ' ')
spaced(type) == [replace |-> "_", by |-> " ", in |-> type]

\* String.prototype.toUpperCase
toUpperCase(text) == [upper |-> text]

Blank == <<>>

getRiskLevel(score) ==
    IF score >= 8 THEN "Critical"
    ELSE IF score >= 6 THEN "High"
    ELSE IF score >= 4 THEN "Medium"
    ELSE IF score >= 2 THEN "Low"
    ELSE "Minimal"

getRiskEmoji(level) == [emoji |-> level]

getSeverityEmoji(severity) ==
    IF severity \in {"critical", "high", "medium", "low"}
    THEN [emoji |-> severity] ELSE [emoji |-> "default"]

formatMarkdownHeader(data, clock) ==
    << <<"# AI Code Review Report">>,
       Blank,
       <<"**Repository:** ", TextOr(data, "repository", "Unknown")>>,
       <<"**Pull Request:** #", TextOr(data, "pullRequestId", "Unknown")>>,
       <<"**Branch:** ", TextOr(data, "sourceBranch", "Unknown"), " -> ",
         TextOr(data, "targetBranch", "Unknown")>>,
       <<"**Author:** ", TextOr(data, "author", "Unknown")>>,
       <<"**Review Date:** ", toISOString(clock)[1]>>,
       Blank,
       <<"---">> >>

formatMarkdownSummary(data) ==
    LET riskLevel == getRiskLevel(NumberOr0(data, "riskScore"))
        riskEmoji == getRiskEmoji(riskLevel)
    IN  << <<"## Executive Summary">>,
           Blank,
           <<"**Overall Risk Score:** ", riskEmoji, " ", NumberOr0(data, "riskScore"),
             "/10 (", riskLevel, ")">>,
           <<"**Recommendation:** ", TextOr(data, "recommendation", "Review required")>>,
           Blank,
           <<"### Change Statistics">>,
           <<"- **Files Changed:** ", NumberOr0(data, "filesChanged")>>,
           <<"- **Lines Added:** +", NumberOr0(data, "linesAdded")>>,
           <<"- **Lines Removed:** -", NumberOr0(data, "linesRemoved")>>,
           <<"- **Languages:** ",
             IF ListOr(data, "languages") = <<>> THEN "Unknown"
             ELSE [join |-> ListOr(data, "languages")]>>,
           Blank,
           <<"### Issue Summary">>,
           <<"- **Critical Issues:** ", Len(ListOr(data, "criticalIssues"))>>,
           <<"- **Security Concerns:** ", Len(ListOr(data, "security"))>>,
           <<"- **Performance Issues:** ", Len(ListOr(data, "performance"))>>,
           <<"- **Quality Issues:** ", Len(ListOr(data, "quality"))>> >>

\* a field holding text that is neither undefined nor empty
TruthyText(rec, f) == Has(rec, f) /\ rec[f] # ""

\* a field holding a number that is neither undefined nor 0
TruthyNumber(rec, f) == Has(rec, f) /\ rec[f] # 0

\* issue.line ? ` (Line ${issue.line})` : ''
lineSuffix(issue) ==
    IF TruthyNumber(issue, "line") THEN <<" (Line ", issue.line, ")">> ELSE <<>>

\* the lines formatMarkdownCriticalIssues appends for one issue
criticalIssueLines(issue) ==
    << <<"### ", getSeverityEmoji(issue.severity), " ", issue.type>>,
       Blank,
       <<"**File:** ", [code |-> issue.file]>> \o lineSuffix(issue),
       <<"**Severity:** ", issue.severity>>,
       Blank,
       <<issue.description>>,
       Blank,
       IF TruthyText(issue, "suggestion")
       THEN <<"**Suggested Fix:** ", issue.suggestion>>
       ELSE Blank,
       Blank,
       IF TruthyText(issue, "content") THEN <<[fenced |-> issue.content]>> ELSE Blank,
       Blank,
       <<"---">>,
       Blank >>

RECURSIVE criticalIssuesLoop(_, _, _)
criticalIssuesLoop(issues, k, section) ==
    IF k > Len(issues) THEN section
    ELSE criticalIssuesLoop(issues, k + 1, section \o criticalIssueLines(issues[k]))

formatMarkdownCriticalIssues(issues) ==
    criticalIssuesLoop(issues, 1, << <<"## Critical Issues">>, Blank >>)

RECURSIVE groupIssuesReduce(_, _, _)
\* the reduce of groupIssuesByType over issues[k..]: the groups in the order
\* their types first occur, each with its issues in input order
groupIssuesReduce(issues, k, groups) ==
    IF k > Len(issues) THEN groups
    ELSE LET type == TextOr(issues[k], "type", "unknown")
             at == {g \in 1..Len(groups) : groups[g].type = type}
         IN  groupIssuesReduce(issues, k + 1,
                 IF at = {}
                 THEN Append(groups, [type |-> type, issues |-> <<issues[k]>>])
                 ELSE [groups EXCEPT ![CHOOSE g \in at : TRUE].issues = Append(@, issues[k])])

groupIssuesByType(issues) == groupIssuesReduce(issues, 1, <<>>)

\* the lines the analysis sections append for one issue, label naming the advice
issueLines(issue, label) ==
    << <<"- **", issue.file, "**">> \o lineSuffix(issue) \o <<": ", issue.description>> >>
    \o (IF TruthyText(issue, "suggestion")
        THEN << <<"  - *", label, ": ", issue.suggestion, "*">> >>
        ELSE <<>>)

RECURSIVE groupIssueLines(_, _, _)
groupIssueLines(issues, k, label) ==
    IF k > Len(issues) THEN <<>>
    ELSE issueLines(issues[k], label) \o groupIssueLines(issues, k + 1, label)

RECURSIVE groupsLoop(_, _, _, _)
\* for (const [type, issues] of Object.entries(groupedIssues))
groupsLoop(groups, k, label, section) ==
    IF k > Len(groups) THEN section
    ELSE groupsLoop(groups, k + 1, label,
             section \o << <<"### ", toUpperCase(spaced(groups[k].type))>>, Blank >>
                     \o groupIssueLines(groups[k].issues, 1, label)
                     \o <<Blank>>)

formatMarkdownSecurityAnalysis(securityIssues) ==
    groupsLoop(groupIssuesByType(securityIssues), 1, "Suggestion",
               << <<"## Security Analysis">>, Blank >>)

formatMarkdownPerformanceAnalysis(performanceIssues) ==
    groupsLoop(groupIssuesByType(performanceIssues), 1, "Optimization",
               << <<"## Performance Analysis">>, Blank >>)

formatMarkdownQualityAnalysis(qualityIssues) ==
    groupsLoop(groupIssuesByType(qualityIssues), 1, "Improvement",
               << <<"## Code Quality Analysis">>, Blank >>)

RECURSIVE groupSuggestionsReduce(_, _, _)
\* the reduce of groupSuggestionsByPriority over suggestions[k..]: groups maps
\* each priority met to its suggestions in input order
groupSuggestionsReduce(suggestions, k, groups) ==
    IF k > Len(suggestions) THEN groups
    ELSE LET priority == TextOr(suggestions[k], "priority", "low")
         IN  groupSuggestionsReduce(suggestions, k + 1,
                 IF priority \in DOMAIN groups
                 THEN [groups EXCEPT ![priority] = Append(@, suggestions[k])]
                 ELSE groups @@ (priority :> <<suggestions[k]>>))

groupSuggestionsByPriority(suggestions) == groupSuggestionsReduce(suggestions, 1, <<>>)

\* the lines formatMarkdownSuggestions appends for one suggestion
suggestionLines(suggestion) ==
    << <<"- **", spaced(suggestion.type), "**: ", suggestion.description>> >>
    \o (IF TruthyText(suggestion, "action")
        THEN << <<"  - *Action: ", suggestion.action, "*">> >>
        ELSE <<>>)

RECURSIVE prioritySuggestionLines(_, _)
prioritySuggestionLines(suggestions, k) ==
    IF k > Len(suggestions) THEN <<>>
    ELSE suggestionLines(suggestions[k]) \o prioritySuggestionLines(suggestions, k + 1)

priorityOrder == <<"high", "medium", "low">>

RECURSIVE priorityLoop(_, _, _)
\* for (const priority of priorityOrder)
priorityLoop(groupedSuggestions, k, section) ==
    IF k > Len(priorityOrder) THEN section
    ELSE LET priority == priorityOrder[k]
         IN  priorityLoop(groupedSuggestions, k + 1,
                 IF priority \in DOMAIN groupedSuggestions
                    /\ Len(groupedSuggestions[priority]) > 0
                 THEN section \o << <<"### ", toUpperCase(priority), " Priority">>, Blank >>
                              \o prioritySuggestionLines(groupedSuggestions[priority], 1)
                              \o <<Blank>>
                 ELSE section)

formatMarkdownSuggestions(suggestions) ==
    priorityLoop(groupSuggestionsByPriority(suggestions), 1,
                 << <<"## Recommendations">>, Blank >>)

\* metrics.f || 'N/A'
valueOrNA(metrics, f) == IF TruthyNumber(metrics, f) THEN metrics[f] ELSE "N/A"

getComplexityStatus(metrics) ==
    IF ~TruthyNumber(metrics, "complexity") THEN "Unknown"
    ELSE IF metrics.complexity > 15 THEN "High"
    ELSE IF metrics.complexity > 10 THEN "Medium"
    ELSE "Good"

getCoverageStatus(metrics) ==
    IF ~TruthyNumber(metrics, "testCoverage") THEN "Unknown"
    ELSE IF metrics.testCoverage < 60 THEN "Low"
    ELSE IF metrics.testCoverage < 80 THEN "Medium"
    ELSE "Good"

getDuplicationStatus(metrics) ==
    IF ~TruthyNumber(metrics, "duplication") THEN "Unknown"
    ELSE IF metrics.duplication > 10 THEN "High"
    ELSE IF metrics.duplication > 5 THEN "Medium"
    ELSE "Good"

getDebtStatus(metrics) ==
    IF ~TruthyNumber(metrics, "technicalDebt") THEN "Unknown"
    ELSE IF metrics.technicalDebt > 5 THEN "High"
    ELSE "Low"

getMaintainabilityStatus(metrics) ==
    IF ~TruthyNumber(metrics, "maintainability") THEN "Unknown"
    ELSE IF metrics.maintainability < 60 THEN "Poor"
    ELSE IF metrics.maintainability < 80 THEN "Fair"
    ELSE "Good"

formatMarkdownMetrics(metrics) ==
    << <<"## Code Metrics">>,
       Blank,
       <<"| Metric | Value | Status |">>,
       <<"|--------|-------|--------|">>,
       <<"| Cyclomatic Complexity | ", valueOrNA(metrics, "complexity"), " | ",
         getComplexityStatus(metrics), " |">>,
       <<"| Test Coverage | ", valueOrNA(metrics, "testCoverage"), "% | ",
         getCoverageStatus(metrics), " |">>,
       <<"| Code Duplication | ", valueOrNA(metrics, "duplication"), "% | ",
         getDuplicationStatus(metrics), " |">>,
       <<"| Technical Debt | ", valueOrNA(metrics, "technicalDebt"), " | ",
         getDebtStatus(metrics), " |">>,
       <<"| Maintainability Index | ", valueOrNA(metrics, "maintainability"), " | ",
         getMaintainabilityStatus(metrics), " |">> >>

formatMarkdownFooter(data, clock) ==
    << <<"---">>,
       Blank,
       <<"*This report was generated by the AI Code Review System v1.0*">>,
       <<"*Analysis completed at: ", toISOString(clock), "*">>,
       <<"*Review ID: ", TextOr(data, "reviewId", "Unknown"), "*">> >>

\* if (data.metrics) sections.push(this.formatMarkdownMetrics(data.metrics))
metricsSection(data) ==
    IF Has(data, "metrics") THEN <<formatMarkdownMetrics(data.metrics)>> ELSE <<>>

\* formatMarkdownReport: the sections in the order pushed; the report is their
\* join by one blank line
formatMarkdownReport(data, clock) ==
    <<formatMarkdownHeader(data, clock)>>
    \o <<formatMarkdownSummary(data)>>
    \o (IF NonEmptyList(data, "criticalIssues")
        THEN <<formatMarkdownCriticalIssues(data.criticalIssues)>> ELSE <<>>)
    \o (IF NonEmptyList(data, "security")
        THEN <<formatMarkdownSecurityAnalysis(data.security)>> ELSE <<>>)
    \o (IF NonEmptyList(data, "performance")
        THEN <<formatMarkdownPerformanceAnalysis(data.performance)>> ELSE <<>>)
    \o (IF NonEmptyList(data, "quality")
        THEN <<formatMarkdownQualityAnalysis(data.quality)>> ELSE <<>>)
    \o (IF NonEmptyList(data, "suggestions")
        THEN <<formatMarkdownSuggestions(data.suggestions)>> ELSE <<>>)
    \o metricsSection(data)
    \o <<formatMarkdownFooter(data, clock)>>

\* data.f as JSON.stringify writes it: the key is left out when undefined
jsonField(data, f) == IF Has(data, f) THEN [value |-> data[f]] ELSE [omitted |-> TRUE]

\* formatJsonReport: the object handed to JSON.stringify
formatJsonReport(data, clock) ==
    [metadata |-> [reviewId |-> jsonField(data, "reviewId"),
                   timestamp |-> toISOString(clock),
                   version |-> "1.0.0"],
     summary |-> [riskScore |-> jsonField(data, "riskScore"),
                  recommendation |-> jsonField(data, "recommendation"),
                  filesChanged |-> jsonField(data, "filesChanged"),
                  linesAdded |-> jsonField(data, "linesAdded"),
                  linesRemoved |-> jsonField(data, "linesRemoved"),
                  languages |-> jsonField(data, "languages")],
     issues |-> [critical |-> ListOr(data, "criticalIssues"),
                 security |-> ListOr(data, "security"),
                 performance |-> ListOr(data, "performance"),
                 quality |-> ListOr(data, "quality")],
     suggestions |-> ListOr(data, "suggestions"),
     metrics |-> IF Has(data, "metrics") THEN data.metrics ELSE <<>>]

\* formatHtmlReport: the lines of the template that carry data, between the
\* fixed head with its style sheet and the closing tags
formatHtmlReport(data, clock) ==
    << <<"<!DOCTYPE html>">>,
       <<"<title>AI Code Review Report</title>">>,
       <<"<h1>AI Code Review Report</h1>">>,
       <<"<p><strong>Repository:</strong> ", TextOr(data, "repository", "Unknown"), "</p>">>,
       <<"<p><strong>Pull Request:</strong> #", TextOr(data, "pullRequestId", "Unknown"),
         "</p>">>,
       <<"<p><strong>Risk Score:</strong> ", NumberOr0(data, "riskScore"), "/10</p>">>,
       <<"<h2>Summary</h2>">>,
       <<"<p>Files Changed: ", NumberOr0(data, "filesChanged"), "</p>">>,
       <<"<p>Lines Added: +", NumberOr0(data, "linesAdded"), "</p>">>,
       <<"<p>Lines Removed: -", NumberOr0(data, "linesRemoved"), "</p>">>,
       <<"<footer>">>,
       <<"<p><em>Generated by AI Code Review System v1.0 at ", toISOString(clock),
         "</em></p>">>,
       <<"</footer>">>,
       <<"</html>">> >>

\* 'c'.repeat(n)
repeat(c, n) == [repeat |-> c, times |-> n]

RECURSIVE textIssuesLoop(_, _)
\* for (const issue of data.criticalIssues) of formatTextReport
textIssuesLoop(issues, k) ==
    IF k > Len(issues) THEN <<>>
    ELSE << <<"- ", issues[k].type, ": ", issues[k].description>>,
            <<"  File: ", issues[k].file>>,
            Blank >>
         \o textIssuesLoop(issues, k + 1)

formatTextReport(data, clock) ==
    << <<repeat("=", 60)>>,
       <<"AI CODE REVIEW REPORT">>,
       <<repeat("=", 60)>>,
       Blank,
       <<"Repository: ", TextOr(data, "repository", "Unknown")>>,
       <<"Pull Request: #", TextOr(data, "pullRequestId", "Unknown")>>,
       <<"Risk Score: ", NumberOr0(data, "riskScore"), "/10">>,
       Blank >>
    \o (IF NonEmptyList(data, "criticalIssues")
        THEN << <<"CRITICAL ISSUES:">>, <<repeat("-", 20)>> >>
             \o textIssuesLoop(data.criticalIssues, 1)
        ELSE <<>>)
    \o << Blank,
          <<repeat("=", 60)>>,
          <<"Generated at: ", toISOString(clock)>> >>

markdown == <<"m", "a", "r", "k", "d", "o", "w", "n">>

json == <<"j", "s", "o", "n">>

html == <<"h", "t", "m", "l">>

text == <<"t", "e", "x", "t">>

\* formatReport with a default case that falls back to markdown
formatReportWithFallback(analysisData, format, clock) ==
    LET f == toLowerCase(format)
    IN  IF f = json THEN [out |-> formatJsonReport(analysisData, clock)]
        ELSE IF f = html THEN [out |-> formatHtmlReport(analysisData, clock)]
        ELSE IF f = text THEN [out |-> formatTextReport(analysisData, clock)]
        ELSE [out |-> formatMarkdownReport(analysisData, clock)]

\* formatReport at this clock value: the report, or the Error thrown
formatReport(analysisData, format, clock) ==
    LET f == toLowerCase(format)
    IN  IF f = markdown THEN [out |-> formatMarkdownReport(analysisData, clock)]
        ELSE IF f = json THEN [out |-> formatJsonReport(analysisData, clock)]
        ELSE IF f = html THEN [out |-> formatHtmlReport(analysisData, clock)]
        ELSE IF f = text THEN [out |-> formatTextReport(analysisData, clock)]
        ELSE [thrown |-> "Error", message |-> <<"Unsupported format: ", format>>]

-----------------------------------------------------------------------------
(* Callers of the formatter *)

\* longest suggestions list handed to formatMarkdownSuggestions
MaxSuggestions == 3

\* format strings: the four formats in several spellings, and others
Formats ==
    { markdown, <<"M", "a", "r", "k", "D", "o", "w", "n">>, <<"J", "S", "O", "N">>, html,
      <<"T", "e", "x", "t">>, <<"y", "a", "m", "l">>, <<"m", "d">> }

\* clock values: two instants of one day and an instant of the next day
Clocks ==
    { [date |-> "2024-05-01", time |-> "08:00:00.000Z"],
      [date |-> "2024-05-01", time |-> "23:59:59.999Z"],
      [date |-> "2024-05-02", time |-> "00:00:00.000Z"] }

\* an issue as analyzeDiff builds it
AnIssue ==
    [type |-> "sql_injection", severity |-> "critical", file |-> "src/a.js", line |-> 0,
     description |-> "Potential SQL injection vulnerability",
     suggestion |-> "Use parameterized queries or prepared statements",
     content |-> "q = 'select * from t where id=' + $id;"]

\* an issue of another type, with a line number and no advice
AnotherIssue ==
    [type |-> "weak_crypto", severity |-> "medium", file |-> "src/b.js", line |-> 12,
     description |-> "Weak cryptographic algorithm detected"]

ASuggestion(type, priority) ==
    [type |-> type, priority |-> priority, description |-> "d", action |-> "a"]

\* suggestions of each priority (two of them high), one with no priority, and
\* one whose priority is none of high, medium and low
SuggestionPool ==
    { ASuggestion("security_review", "high"), ASuggestion("secret_scan", "high"),
      ASuggestion("performance_testing", "medium"), ASuggestion("code_refactoring", "low"),
      [type |-> "documentation", description |-> "d"],
      ASuggestion("license_check", "urgent") }

SuggestionLists == UNION { [1..n -> SuggestionPool] : n \in 0..MaxSuggestions }

\* the fields of the pull request and of the result other than the lists
ReportBase ==
    [repository |-> "flow", pullRequestId |-> "42", author |-> "dev", riskScore |-> 7,
     recommendation |-> "", filesChanged |-> 2, reviewId |-> "review-1"]

\* a field holding one of the values, or the field left undefined
Optional(f, values) == {<<>>} \cup { f :> v : v \in values }

\* a metrics object with every figure
FullMetrics ==
    [complexity |-> 12, testCoverage |-> 85, duplication |-> 3, technicalDebt |-> 0,
     maintainability |-> 70]

\* the analysis data handed to formatReport
ReportData ==
    { ReportBase @@ crit @@ sec @@ perf @@ qual @@ sug @@ met :
        crit \in Optional("criticalIssues", {<<AnIssue>>}),
        sec \in Optional("security", {<<>>, <<AnIssue, AnotherIssue, AnIssue>>}),
        perf \in {"performance" :> <<>>, "performance" :> <<AnotherIssue>>},
        qual \in {"quality" :> <<>>, "quality" :> <<AnotherIssue>>},
        sug \in Optional("suggestions",
                    { <<>>, <<ASuggestion("code_refactoring", "low"),
                              ASuggestion("security_review", "high")>>,
                      <<ASuggestion("license_check", "urgent")>> }),
        met \in Optional("metrics", {<<>>, FullMetrics}) }

\* formatReport(analysisData, format), the first call of a caller
CallFormatReport ==
    /\ fpc = "idle"
    /\ \E data \in ReportData, format \in Formats, clock \in Clocks :
          /\ fcall' = [method |-> "formatReport", analysisData |-> data, format |-> format]
          /\ fret' = <<[clock |-> clock, result |-> formatReport(data, format, clock)]>>
    /\ fpc' = "once"
    /\ UNCHANGED analyzerVars
    /\ UNCHANGED clientVars
    /\ UNCHANGED lateVars

\* the same call made once more, at another clock value
CallFormatReportAgain ==
    /\ fpc = "once"
    /\ fcall.method = "formatReport"
    /\ \E clock \in Clocks \ {fret[1].clock} :
          fret' = Append(fret,
                      [clock |-> clock,
                       result |-> formatReport(fcall.analysisData, fcall.format, clock)])
    /\ fpc' = "twice"
    /\ UNCHANGED fcall
    /\ UNCHANGED analyzerVars
    /\ UNCHANGED clientVars
    /\ UNCHANGED lateVars

\* formatMarkdownSuggestions(suggestions)
CallFormatMarkdownSuggestions ==
    /\ fpc = "idle"
    /\ \E suggestions \in SuggestionLists :
          /\ fcall' = [method |-> "formatMarkdownSuggestions", suggestions |-> suggestions]
          /\ fret' = <<[result |-> [out |-> formatMarkdownSuggestions(suggestions)]]>>
    /\ fpc' = "once"
    /\ UNCHANGED analyzerVars
    /\ UNCHANGED clientVars
    /\ UNCHANGED lateVars

NextFormatter ==
    \/ CallFormatReport
    \/ CallFormatReportAgain
    \/ CallFormatMarkdownSuggestions

SpecFormatter == Init /\ [][NextFormatter]_vars

-----------------------------------------------------------------------------
(* summarizeChanges: the implementation index.js loads                       *)
(* (azure-devops-pr-reviewer/functions/diff-analyzer.js) and that of part_003 *)

RECURSIVE summarizeLoop(_, _, _)
\* the loop of the implementation index.js loads over changes[k..]
summarizeLoop(changes, k, counts) ==
    IF k > Len(changes) THEN counts
    ELSE LET change == changes[k]
         IN  summarizeLoop(changes, k + 1,
                 [files |-> counts.files + 1,
                  added |-> IF change.changeType = "add" THEN counts.added + 1
                            ELSE counts.added,
                  deleted |-> IF change.changeType = "delete" THEN counts.deleted + 1
                              ELSE counts.deleted])

\* the implementation index.js loads: it returns { files, added, deleted }
summarizeChanges(changes) ==
    summarizeLoop(changes, 1, [files |-> 0, added |-> 0, deleted |-> 0])

RECURSIVE summarizeSwitchLoop(_, _, _)
\* the loop of the implementation of part_003 over changes[k..]
summarizeSwitchLoop(changes, k, summary) ==
    IF k > Len(changes) THEN summary
    ELSE LET change == changes[k]
             counted == [summary EXCEPT !.files = @ + 1]
         IN  summarizeSwitchLoop(changes, k + 1,
                 CASE change.changeType = "add" -> [counted EXCEPT !.added = @ + 1]
                   [] change.changeType = "delete" -> [counted EXCEPT !.deleted = @ + 1]
                   [] change.changeType = "edit" -> [counted EXCEPT !.edited = @ + 1]
                   [] OTHER -> counted)

\* the implementation of part_003
summarizeChangesPart003(changes) ==
    summarizeSwitchLoop(changes, 1, [files |-> 0, added |-> 0, deleted |-> 0, edited |-> 0])

\* the longest change list summarized
MaxChanges == 3

ChangeTypes == {"add", "delete", "edit", "rename"}

ChangeLists ==
    UNION {[1..n -> [changeType : ChangeTypes]] : n \in 0..MaxChanges}

Implementations == {"index.js", "part_003"}

CallSummarizeChanges ==
    /\ ucall = NoCall
    /\ \E changes \in ChangeLists : \E implementation \in Implementations :
          /\ ucall' = [method |-> "summarizeChanges", implementation |-> implementation,
                       changes |-> changes]
          /\ uret' = IF implementation = "index.js" THEN summarizeChanges(changes)
                     ELSE summarizeChangesPart003(changes)
    /\ UNCHANGED <<analyzerVars, clientVars, formatterVars>>
    /\ UNCHANGED <<loggerVars, webhookVars, breakerVars>>

NextSummary == CallSummarizeChanges

SpecSummary == Init /\ [][NextSummary]_vars

-----------------------------------------------------------------------------
(* The webhook handler of index.js: app.post('/api/pr')                      *)
(* The client it constructs is called through getPullRequest,               *)
(* getPullRequestChanges and createThread; each call resolves or rejects.   *)

\* buildSummary: the lines of the report
buildSummary(summary) ==
    << <<"PR Analysis Summary">>,
       <<"Files changed: ", summary.files>>,
       <<"Lines added: +", summary.added>>,
       <<"Lines removed: -", summary.deleted>>,
       <<"Risk level: ", summary.risk>> >>

EventTypes == {"git.pullrequest.created", "git.pullrequest.updated", "git.push",
               "git.pullrequest.merged"}

\* request bodies: eventType and resource may be absent, and so may
\* resource.pullRequestId (0 is a falsy id)
Resources ==
    {[repository |-> "repo-id"]}
        \cup {[repository |-> "repo-id", pullRequestId |-> id] : id \in 0..1}

RequestBodies ==
    {<<>>} \cup {[eventType |-> e] : e \in EventTypes}
        \cup {[resource |-> r] : r \in Resources}
        \cup {[eventType |-> e, resource |-> r] : e \in EventTypes, r \in Resources}

\* req.body.resource && req.body.resource.pullRequestId is truthy
truthyPrId(body) ==
    /\ "resource" \in DOMAIN body
    /\ "pullRequestId" \in DOMAIN body.resource
    /\ body.resource.pullRequestId # 0

send(status, body) == [status |-> status, body |-> body]

\* the catch block of the handler
catchErr == send(500, "Error processing PR")

\* the handler up to its first await
HandleRequest ==
    /\ wpc = "idle"
    /\ \E body \in RequestBodies :
          /\ wreq' = body
          /\ IF ~truthyPrId(body)
             THEN /\ responses' = Append(responses, send(400, "Invalid payload"))
                  /\ hostCalls' = hostCalls
                  /\ wpc' = "done"
             ELSE /\ hostCalls' = Append(hostCalls,
                         [method |-> "getPullRequest", prId |-> body.resource.pullRequestId])
                  /\ responses' = responses
                  /\ wpc' = "getPullRequest"
    /\ UNCHANGED <<analyzerVars, clientVars, formatterVars>>
    /\ UNCHANGED <<utilityVars, loggerVars, breakerVars>>

\* what client.getPullRequest resolves to: a pull request with or without lastMergeCommit
PullRequests == {[pullRequestId |-> 1],
                 [pullRequestId |-> 1, lastMergeCommit |-> [commitId |-> "c1"]]}

\* await client.getPullRequest(prId) ends: the handler runs to its next await
GetPullRequestSettles ==
    /\ wpc = "getPullRequest"
    /\ \/ \E pr \in PullRequests :
             IF "lastMergeCommit" \in DOMAIN pr
             THEN /\ hostCalls' = Append(hostCalls,
                         [method |-> "getPullRequestChanges",
                          prId |-> wreq.resource.pullRequestId,
                          commitId |-> pr.lastMergeCommit.commitId])
                  /\ responses' = responses
                  /\ wpc' = "getPullRequestChanges"
             ELSE /\ responses' = Append(responses, catchErr)
                  /\ hostCalls' = hostCalls
                  /\ wpc' = "done"
       \/ /\ responses' = Append(responses, catchErr)
          /\ hostCalls' = hostCalls
          /\ wpc' = "done"
    /\ wreq' = wreq
    /\ UNCHANGED <<analyzerVars, clientVars, formatterVars>>
    /\ UNCHANGED <<utilityVars, loggerVars, breakerVars>>

\* await client.getPullRequestChanges(...) ends: summary, report, then createThread
GetPullRequestChangesSettles ==
    /\ wpc = "getPullRequestChanges"
    /\ \/ \E changes \in ChangeLists :
             LET summary == summarizeChanges(changes)
                 report == buildSummary(summary @@ [risk |-> "Medium"])
             IN  /\ hostCalls' = Append(hostCalls,
                        [method |-> "createThread", prId |-> wreq.resource.pullRequestId,
                         content |-> report])
                 /\ responses' = responses
                 /\ wpc' = "createThread"
       \/ /\ responses' = Append(responses, catchErr)
          /\ hostCalls' = hostCalls
          /\ wpc' = "done"
    /\ wreq' = wreq
    /\ UNCHANGED <<analyzerVars, clientVars, formatterVars>>
    /\ UNCHANGED <<utilityVars, loggerVars, breakerVars>>

\* await client.createThread(...) ends
CreateThreadSettles ==
    /\ wpc = "createThread"
    /\ \/ responses' = Append(responses, send(200, "Processed"))
       \/ responses' = Append(responses, catchErr)
    /\ wpc' = "done"
    /\ UNCHANGED <<wreq, hostCalls>>
    /\ UNCHANGED <<analyzerVars, clientVars, formatterVars>>
    /\ UNCHANGED <<utilityVars, loggerVars, breakerVars>>

NextWebhook ==
    \/ HandleRequest
    \/ GetPullRequestSettles
    \/ GetPullRequestChangesSettles
    \/ CreateThreadSettles

SpecWebhook == Init /\ [][NextWebhook]_vars

-----------------------------------------------------------------------------
(* validateWebhookSignature of ErrorHandler and of AzureDevOpsClient         *)
(* The HMAC-SHA256 digest is abstracted to two bytes (four hex digits) that  *)
(* differ whenever the payload or the secret differs.                       *)

HexLetters == {"a", "b", "c", "d", "e", "f"}

IsHexDigit(c) == c \in Digits \/ Lower(c) \in HexLetters

RECURSIVE BufferFromHex(_)
\* Buffer.from(s, 'hex'): one byte per pair of hex digits, case ignored, ending
\* at the first pair that is not hex; a last single digit is dropped
BufferFromHex(s) ==
    IF Len(s) < 2 \/ ~IsHexDigit(s[1]) \/ ~IsHexDigit(s[2]) THEN <<>>
    ELSE << <<Lower(s[1]), Lower(s[2])>> >> \o BufferFromHex(SubSeq(s, 3, Len(s)))

\* crypto.timingSafeEqual: a RangeError when the byte lengths differ
timingSafeEqual(a, b) ==
    IF Len(a) # Len(b) THEN Throw("RangeError") ELSE [value |-> a = b]

Payloads == {"1", "2", "3"}

Secrets == {"4", "5"}

\* crypto.createHmac('sha256', secret).update(payload).digest('hex')
hmacHex(payload, secret) == <<"a", payload, "b", secret>>

sha256Prefix == <<"s", "h", "a", "2", "5", "6", "=">>

\* String.prototype.replace(w, ''): the first occurrence of w is removed
replaceFirst(s, w) ==
    IF \E i \in 1..Len(s) : At(s, i, w)
    THEN LET i == CHOOSE j \in 1..Len(s) : At(s, j, w) /\ \A h \in 1..(j - 1) : ~At(s, h, w)
         IN  SubSeq(s, 1, i - 1) \o SubSeq(s, i + Len(w), Len(s))
    ELSE s

\* new WebhookError(message, statusCode = 400)
WebhookError(message, statusCode) ==
    [thrown |-> "WebhookError", statusCode |-> statusCode, code |-> "WEBHOOK_ERROR",
     message |-> message]

\* ErrorHandler.validateWebhookSignature: returns undefined or throws
validateWebhookSignature(payload, signature, secret) ==
    IF signature.kind = "null" \/ signature.chars = <<>>
    THEN WebhookError("Missing webhook signature", 400)
    ELSE LET expectedSignature == hmacHex(payload, secret)
             providedSignature == replaceFirst(signature.chars, sha256Prefix)
             equal == timingSafeEqual(BufferFromHex(expectedSignature),
                                      BufferFromHex(providedSignature))
         IN  IF Threw(equal) THEN equal
             ELSE IF ~equal.value THEN WebhookError("Invalid webhook signature", 401)
             ELSE [returned |-> "undefined"]

\* AzureDevOpsClient.validateWebhookSignature: returns a boolean or throws;
\* Buffer.from(null, 'hex') is a TypeError
clientValidateWebhookSignature(payload, signature, secret) ==
    IF signature.kind = "null" THEN Throw("TypeError")
    ELSE timingSafeEqual(BufferFromHex(signature.chars),
                         BufferFromHex(hmacHex(payload, secret)))

\* the signatures a request may carry for a payload and a secret: none, the empty
\* one, the digest (bare, prefixed, in upper case), the digest of another payload,
\* the digest cut short, the digest followed by other characters, and a word
Signatures(payload, secret) ==
    LET digest == hmacHex(payload, secret)
    IN  {Null, Str(<<>>), Str(digest), Str(sha256Prefix \o digest),
         Str(sha256Prefix \o <<"A", payload, "B", secret>>),
         Str(<<"A", payload, "B", secret>>), Str(digest \o <<"z", "z">>),
         Str(SubSeq(digest, 1, 2)), Str(<<"i", "n", "v", "a", "l", "i", "d">>)}
            \cup {Str(hmacHex(other, secret)) : other \in Payloads \ {payload}}
            \cup {Str(sha256Prefix \o hmacHex(other, secret)) : other \in Payloads \ {payload}}

CallValidateWebhookSignature ==
    /\ ucall = NoCall
    /\ \E payload \in Payloads : \E secret \in Secrets :
       \E signature \in Signatures(payload, secret) :
          /\ ucall' = [method |-> "ErrorHandler.validateWebhookSignature",
                       payload |-> payload, signature |-> signature, secret |-> secret]
          /\ uret' = validateWebhookSignature(payload, signature, secret)
    /\ UNCHANGED <<analyzerVars, clientVars, formatterVars>>
    /\ UNCHANGED <<loggerVars, webhookVars, breakerVars>>

CallClientValidateWebhookSignature ==
    /\ ucall = NoCall
    /\ \E payload \in Payloads : \E secret \in Secrets :
       \E signature \in Signatures(payload, secret) :
          /\ ucall' = [method |-> "AzureDevOpsClient.validateWebhookSignature",
                       payload |-> payload, signature |-> signature, secret |-> secret]
          /\ uret' = clientValidateWebhookSignature(payload, signature, secret)
    /\ UNCHANGED <<analyzerVars, clientVars, formatterVars>>
    /\ UNCHANGED <<loggerVars, webhookVars, breakerVars>>

NextSignature ==
    \/ CallValidateWebhookSignature
    \/ CallClientValidateWebhookSignature

SpecSignature == Init /\ [][NextSignature]_vars

-----------------------------------------------------------------------------
(* Logger (functions/logger.js) *)

\* the most calls of Logger.log made on one logger
MaxLogs == 3

\* level names handed to the constructor and to log, the last one no level
LevelNames == {"error", "warn", "info", "debug", "verbose"}

LoggerOptions == {<<>>} \cup {[level |-> l] : l \in LevelNames}

Environments == {<<>>} \cup {[LOG_LEVEL |-> l] : l \in LevelNames}

\* new Logger(options) with process.env as given
NewLogger ==
    /\ logged = <<>>
    /\ \E options \in LoggerOptions : \E env \in Environments :
          /\ loggerLevel' = constructorLevel(options, env)
          /\ currentLevel' = constructorCurrentLevel(constructorLevel(options, env))
    /\ UNCHANGED <<output, logged>>
    /\ UNCHANGED <<analyzerVars, clientVars, formatterVars>>
    /\ UNCHANGED <<utilityVars, webhookVars, breakerVars>>

\* the guard of Logger.log: this.levels[level] > this.currentLevel, false when
\* this.levels[level] is undefined
logReturnsEarly(level, current) == level \in DOMAIN levels /\ levels[level] > current

\* Logger.log(level, message): the entry is written unless the guard returns
CallLog ==
    /\ Len(logged) < MaxLogs
    /\ \E level \in LevelNames :
          /\ logged' = Append(logged, level)
          /\ output' = IF logReturnsEarly(level, currentLevel) THEN output
                       ELSE Append(output, level)
    /\ UNCHANGED <<loggerLevel, currentLevel>>
    /\ UNCHANGED <<analyzerVars, clientVars, formatterVars>>
    /\ UNCHANGED <<utilityVars, webhookVars, breakerVars>>

NextLogger ==
    \/ NewLogger
    \/ CallLog

SpecLogger == Init /\ [][NextLogger]_vars

-----------------------------------------------------------------------------
(* ErrorHandler.createCircuitBreaker (functions/error-handler.js)            *)
(* The breaker is the function createCircuitBreaker returns; its calls are   *)
(* asynchronous and may overlap: a call is admitted, awaits fn(), and ends.  *)

\* the most calls made through the breaker
MaxCalls == 5

\* the most calls awaiting fn() at one time
MaxInflight == 2

\* the most advances of the clock, each of half the recovery timeout
MaxTicks == 3

defaultFailureThreshold == 5

defaultRecoveryTimeout == 60000

\* the successes that close a half-open breaker
closingSuccesses == 3

\* the options handed to createCircuitBreaker; an absent field takes its default
BreakerOptions ==
    {<<>>, [failureThreshold |-> 1], [failureThreshold |-> 2],
     [failureThreshold |-> 2, recoveryTimeout |-> 2]}

\* createCircuitBreaker(options): the closure variables; lastFailureTime is null,
\* which counts as 0 in a subtraction
CreateCircuitBreaker ==
    /\ bpc = "none"
    /\ \E options \in BreakerOptions :
          /\ failureThreshold' = IF "failureThreshold" \in DOMAIN options
                                 THEN options.failureThreshold ELSE defaultFailureThreshold
          /\ recoveryTimeout' = IF "recoveryTimeout" \in DOMAIN options
                                THEN options.recoveryTimeout ELSE defaultRecoveryTimeout
    /\ state' = "CLOSED"
    /\ failureCount' = 0
    /\ lastFailureTime' = 0
    /\ successCount' = 0
    /\ bpc' = "created"
    /\ UNCHANGED <<now, inflight, completed>>
    /\ UNCHANGED <<analyzerVars, clientVars, formatterVars>>
    /\ UNCHANGED <<utilityVars, loggerVars, webhookVars>>

\* the test an open breaker makes with the clock it reads on the call
recoveryElapsedStrictly(clock, last, timeout) == clock - last > timeout

\* Date.now() - lastFailureTime >= recoveryTimeout
recoveryElapsed(clock, last, timeout) == clock - last >= timeout

\* the number of the next call made through the breaker
nextCall == Len(completed) + Len(inflight) + 1

CanCall == bpc = "created" /\ nextCall <= MaxCalls

\* a call on an open breaker before the recovery timeout: it throws
CallRejected ==
    /\ CanCall
    /\ state = "OPEN"
    /\ ~recoveryElapsed(now, lastFailureTime, recoveryTimeout)
    /\ completed' = Append(completed,
           [call |-> nextCall, admitted |-> "no", outcome |-> "threw",
            error |-> AppError("Circuit breaker is OPEN", 503, "CIRCUIT_BREAKER_OPEN")])
    /\ UNCHANGED <<bpc, failureThreshold, recoveryTimeout, state, failureCount,
                   lastFailureTime, successCount, now, inflight>>
    /\ UNCHANGED <<analyzerVars, clientVars, formatterVars>>
    /\ UNCHANGED <<utilityVars, loggerVars, webhookVars>>

\* a call that gets past the test of the state: fn() is called and awaited; an
\* open breaker whose recovery timeout has passed becomes half-open first
CallAdmitted ==
    /\ CanCall
    /\ Len(inflight) < MaxInflight
    /\ state = "OPEN" => recoveryElapsed(now, lastFailureTime, recoveryTimeout)
    /\ state' = IF state = "OPEN" THEN "HALF_OPEN" ELSE state
    /\ successCount' = IF state = "OPEN" THEN 0 ELSE successCount
    /\ inflight' = Append(inflight, [call |-> nextCall, admitted |-> state'])
    /\ UNCHANGED <<bpc, failureThreshold, recoveryTimeout, failureCount, lastFailureTime,
                   now, completed>>
    /\ UNCHANGED <<analyzerVars, clientVars, formatterVars>>
    /\ UNCHANGED <<utilityVars, loggerVars, webhookVars>>

\* the sequence without its i-th element
Without(s, i) == SubSeq(s, 1, i - 1) \o SubSeq(s, i + 1, Len(s))

\* await fn() of one of the pending calls returns a value
FnResolves ==
    /\ \E i \in 1..Len(inflight) :
          /\ inflight' = Without(inflight, i)
          /\ completed' = Append(completed,
                 [call |-> inflight[i].call, admitted |-> inflight[i].admitted,
                  outcome |-> "returned"])
    /\ IF state = "HALF_OPEN"
       THEN /\ successCount' = successCount + 1
            /\ IF successCount + 1 >= closingSuccesses
               THEN state' = "CLOSED" /\ failureCount' = 0
               ELSE UNCHANGED <<state, failureCount>>
       ELSE UNCHANGED <<state, failureCount, successCount>>
    /\ UNCHANGED <<bpc, failureThreshold, recoveryTimeout, lastFailureTime, now>>
    /\ UNCHANGED <<analyzerVars, clientVars, formatterVars>>
    /\ UNCHANGED <<utilityVars, loggerVars, webhookVars>>

\* await fn() of one of the pending calls throws: the catch block
FnThrows ==
    /\ \E i \in 1..Len(inflight) :
          /\ inflight' = Without(inflight, i)
          /\ completed' = Append(completed,
                 [call |-> inflight[i].call, admitted |-> inflight[i].admitted,
                  outcome |-> "threw", error |-> Throw("Error")])
    /\ failureCount' = failureCount + 1
    /\ lastFailureTime' = now
    /\ state' = IF state = "HALF_OPEN" \/ failureCount + 1 >= failureThreshold
                THEN "OPEN" ELSE state
    /\ UNCHANGED <<bpc, failureThreshold, recoveryTimeout, successCount, now>>
    /\ UNCHANGED <<analyzerVars, clientVars, formatterVars>>
    /\ UNCHANGED <<utilityVars, loggerVars, webhookVars>>

\* time passes: half the recovery timeout
ClockAdvances ==
    /\ bpc = "created"
    /\ now + recoveryTimeout \div 2 <= MaxTicks * (recoveryTimeout \div 2)
    /\ now' = now + recoveryTimeout \div 2
    /\ UNCHANGED <<bpc, failureThreshold, recoveryTimeout, state, failureCount,
                   lastFailureTime, successCount, inflight, completed>>
    /\ UNCHANGED <<analyzerVars, clientVars, formatterVars>>
    /\ UNCHANGED <<utilityVars, loggerVars, webhookVars>>

NextBreaker ==
    \/ CreateCircuitBreaker
    \/ CallRejected
    \/ CallAdmitted
    \/ FnResolves
    \/ FnThrows
    \/ ClockAdvances

SpecBreaker == Init /\ [][NextBreaker]_vars

-----------------------------------------------------------------------------
(* Properties of the analyzer *)

Returned(method) == pc = "done" /\ call.method = method /\ ~Threw(ret)

\* C1: the risk score calculateRiskScore returns, and the one analyzeDiff stores,
\* is an integer from 0 to 10, whatever the issue lists hold
C1_RiskScoreInRange ==
    /\ Returned("calculateRiskScore") => ret.value \in 0..10
    /\ Returned("analyzeDiff") => ret.riskScore \in 0..10

\* calculateRiskScore was handed three critical security issues (weights 12 in all)
\* and returned 10
C1_Witness ==
    /\ Returned("calculateRiskScore")
    /\ Len(call.analysis.security) = 3
    /\ \A i \in 1..3 : call.analysis.security[i].severity = "critical"
    /\ ret.value = 10

\* number of issues of the list carrying this severity
CountSeverity(issues, sev) == Cardinality({i \in 1..Len(issues) : issues[i].severity = sev})

\* four times the weighted sum S of the claim: security 4/3/2/1, performance
\* 3/2/1/0.5, quality 2/1/0.5/0.25 for critical/high/medium/low, nothing for the rest
WeightedSum4(a) ==
    16 * CountSeverity(a.security, "critical") + 12 * CountSeverity(a.security, "high")
    + 8 * CountSeverity(a.security, "medium") + 4 * CountSeverity(a.security, "low")
    + 12 * CountSeverity(a.performance, "critical") + 8 * CountSeverity(a.performance, "high")
    + 4 * CountSeverity(a.performance, "medium") + 2 * CountSeverity(a.performance, "low")
    + 8 * CountSeverity(a.quality, "critical") + 4 * CountSeverity(a.quality, "high")
    + 2 * CountSeverity(a.quality, "medium") + CountSeverity(a.quality, "low")

\* C2: calculateRiskScore is min(10, round(S)), S the exact weighted sum, halves
\* rounding up: the result r is 10 when S >= 9.5, else r - 0.5 <= S < r + 0.5
C2_RoundedWeightedSum ==
    Returned("calculateRiskScore") =>
        LET S4 == WeightedSum4(call.analysis)
            r == ret.value
        IN  IF S4 >= 38 THEN r = 10
            ELSE 4 * r - 2 <= S4 /\ S4 < 4 * r + 2

\* a sum that ends in one half (with an unrecognized severity among the issues) was
\* rounded up
C2_Witness ==
    /\ Returned("calculateRiskScore")
    /\ WeightedSum4(call.analysis) = 6
    /\ \E i \in 1..Len(call.analysis.security) : call.analysis.security[i].severity = "info"
    /\ ret.value = 2

\* the lines of the diff text of the call
CallLines == IF call.diffContent.kind = "null" THEN <<>> ELSE split(call.diffContent.chars)

HasPrefix(l, w) == Len(l) >= Len(w) /\ SubSeq(l, 1, Len(w)) = w

IsAddedLine(l) == HasPrefix(l, <<"+">>) /\ ~HasPrefix(l, <<"+", "+", "+">>)

IsRemovedLine(l) == HasPrefix(l, <<"-">>) /\ ~HasPrefix(l, <<"-", "-", "-">>)

IsDroppedLine(l) == HasPrefix(l, <<"@", "@">>) \/ HasPrefix(l, <<"d", "i", "f", "f">>)

\* the (line, rule) pairs of the call that match: line i is an added line and
\* rule r of the rule set matches its text
MatchingPairs(patterns) ==
    { p \in (1..Len(CallLines)) \X (1..Len(patterns)) :
        /\ IsAddedLine(CallLines[p[1]])
        /\ RegexTest(patterns[p[2]].regex, Tail(CallLines[p[1]])) }

\* position of the pair p among the pairs, in line order then rule order
PairRank(pairs, p) ==
    1 + Cardinality({q \in pairs : q[1] < p[1] \/ (q[1] = p[1] /\ q[2] < p[2])})

\* the issue list holds exactly one issue per matching pair, in order, each with
\* the rule's type and severity, the trimmed line text and the caller's path
ListsThePairs(issues, patterns) ==
    LET pairs == MatchingPairs(patterns)
    IN  /\ Len(issues) = Cardinality(pairs)
        /\ \A p \in pairs :
              LET issue == issues[PairRank(pairs, p)]
              IN  /\ issue.type = patterns[p[2]].type
                  /\ issue.severity = patterns[p[2]].severity
                  /\ issue.content = trim(Tail(CallLines[p[1]]))
                  /\ issue.file = call.fileInfo.path

\* C3: analyzeDiff returns in each category list exactly one Issue per matching
\* (added line, rule of the category) pair, in line order then rule order, with
\* the caller's path, the rule's type and severity and the trimmed line text;
\* removed, context and header lines give no Issue
C3_OneIssuePerMatch ==
    Returned("analyzeDiff") =>
        /\ ListsThePairs(ret.security, securityPatterns)
        /\ ListsThePairs(ret.performance, performancePatterns)
        /\ ListsThePairs(ret.quality, qualityPatterns)

\* two added lines gave three security issues (two of them from one line) and a
\* quality issue
C3_Witness ==
    /\ Returned("analyzeDiff")
    /\ Len(CallLines) = 2
    /\ Len(ret.security) = 3
    /\ ret.security[1].type = "xss_vulnerability"
    /\ ret.security[2].type = "insecure_random"
    /\ ret.security[3].type = "weak_crypto"
    /\ Len(ret.quality) = 1

\* C4: the suggestions analyzeDiff returns hold every removed_functionality
\* suggestion appended during the removed-line scan
C4_ScanSuggestionsReturned ==
    Returned("analyzeDiff") =>
        \A i \in 1..Len(scan) : \E j \in 1..Len(ret.suggestions) : ret.suggestions[j] = scan[i]

\* number of suggestions of the list with this type and priority
CountSuggestions(suggestions, type, priority) ==
    Cardinality({i \in 1..Len(suggestions) :
                    suggestions[i].type = type /\ suggestions[i].priority = priority})

\* C5: generateSuggestions gives one high security_review iff there is a security
\* issue, one medium performance_testing iff there are more than 2 performance
\* issues, one low code_refactoring iff there are more than 5 quality issues, each
\* decided on its own, and nothing else
C5_SuggestionThresholds ==
    Returned("generateSuggestions") =>
        LET s == Len(call.analysis.security)
            p == Len(call.analysis.performance)
            q == Len(call.analysis.quality)
            n1 == IF s >= 1 THEN 1 ELSE 0
            n2 == IF p > 2 THEN 1 ELSE 0
            n3 == IF q > 5 THEN 1 ELSE 0
        IN  /\ CountSuggestions(ret.value, "security_review", "high") = n1
            /\ CountSuggestions(ret.value, "performance_testing", "medium") = n2
            /\ CountSuggestions(ret.value, "code_refactoring", "low") = n3
            /\ Len(ret.value) = n1 + n2 + n3

\* two performance issues and five quality issues, with a security issue, gave the
\* security suggestion alone
C5_Witness ==
    /\ Returned("generateSuggestions")
    /\ Len(call.analysis.security) = 1
    /\ Len(call.analysis.performance) = 2
    /\ Len(call.analysis.quality) = 5
    /\ Len(ret.value) = 1

\* the class the claim gives a line
ClassOf(l) ==
    IF IsAddedLine(l) THEN "added"
    ELSE IF IsRemovedLine(l) THEN "removed"
    ELSE IF IsDroppedLine(l) THEN "dropped"
    ELSE "context"

\* the entries expected for the lines of the call that are of class c, in input
\* order: the text after the marker when dropFirst, the whole line otherwise,
\* and line number 0
Entries(c, dropFirst) ==
    LET idx == {i \in 1..Len(CallLines) : ClassOf(CallLines[i]) = c}
        nth(k) == CHOOSE i \in idx : Cardinality({j \in idx : j < i}) = k - 1
    IN  [k \in 1..Cardinality(idx) |->
            [content |-> IF dropFirst THEN Tail(CallLines[nth(k)]) ELSE CallLines[nth(k)],
             lineNumber |-> 0]]

\* C6: parseDiffLines puts a line in added iff it starts with "+" and not "+++",
\* in removed iff it starts with "-" and not "---", drops it iff it starts with
\* "@@" or "diff", and puts it in context otherwise; each output keeps the input
\* order and every line number is 0
C6_LineClassification ==
    Returned("parseDiffLines") =>
        /\ ret.added = Entries("added", TRUE)
        /\ ret.removed = Entries("removed", TRUE)
        /\ ret.context = Entries("context", FALSE)

\* a "+++" header went to context and an added line to added
C6_Witness ==
    /\ Returned("parseDiffLines")
    /\ Len(CallLines) = 2
    /\ HasPrefix(CallLines[1], <<"+", "+", "+">>)
    /\ Len(ret.context) = 1
    /\ Len(ret.added) = 1
    /\ ret.added[1].lineNumber = 0

\* C7: parseDiffLines given empty or null diff text returns three empty
\* sequences and raises no error
C7_EmptyInputEmptyOutput ==
    (pc = "done" /\ call.method = "parseDiffLines" /\ Falsy(call.diffContent)) =>
        /\ ~Threw(ret)
        /\ ret.added = <<>>
        /\ ret.removed = <<>>
        /\ ret.context = <<>>

C9_ScenarioA ==
    (pc = "done" /\ call.method = "analyzeDiff" /\ call.diffContent = Str(ScenarioA)
        /\ call.fileInfo # Null) =>
        /\ ~Threw(ret)
        /\ Len(ret.security) = 1
        /\ ret.security[1].type = "sql_injection"
        /\ ret.security[1].severity = "critical"

-----------------------------------------------------------------------------
(* Properties of the client *)

GetOperations == {"getPullRequest", "getPullRequestChanges", "getFileContent"}

\* C10: get-PR, get-changes and get-file-content are each retried after a failure
\* with status >= 500, up to 3 attempts: the operation ends with the outcome of
\* its last request, and an error with status >= 500 reaches the caller only
\* when three requests in a row have failed so
C10_GetsRetriedThrice ==
    (cpc = "done" /\ cop.method \in GetOperations /\ history # <<>>) =>
        /\ cret = history[Len(history)]
        /\ (Threw(cret) /\ statusAtLeast500(cret)) =>
              /\ Len(history) = 3
              /\ \A i \in 1..3 : Threw(history[i]) /\ statusAtLeast500(history[i])

\* the requests of the operation in progress: the calls a replacement of
\* makeRequest received, else the requests handed to https.request
RequestsMade ==
    IF mk = "replaced" THEN [i \in 1..Len(history) |-> cop.verb] ELSE sent

\* C11: one createPullRequestThread call sends at most 2 POST requests, the second
\* only after the first failed with status >= 500, and returns the first
\* successful response; one updatePullRequestThread call sends exactly 1 PATCH
\* request and its outcome, failure included, is the outcome of that request
C11_ThreadRequests ==
    /\ (cpc = "done" /\ cop.method = "createPullRequestThread" /\ history # <<>>) =>
          /\ Len(RequestsMade) \in 1..2
          /\ \A i \in 1..Len(RequestsMade) : RequestsMade[i] = "POST"
          /\ Len(RequestsMade) = 2 => Threw(history[1]) /\ statusAtLeast500(history[1])
          /\ cret = history[Len(history)]
          /\ ~Threw(cret) => cret.resolved = "response"
    /\ (cpc = "done" /\ cop.method = "updatePullRequestThread") =>
          /\ RequestsMade = <<"PATCH">>
          /\ Len(history) = 1
          /\ cret = history[1]

\* the request function has settled
RequestSettled == cop.method = "requestFunction" /\ cpc = "done"

C13_RetryStopsAtFirst ==
    (cop.method = "retry" /\ cop.options.maxAttempts >= 1) =>
        LET n == Len(history)
        IN  /\ n <= cop.options.maxAttempts
            /\ \A i \in 1..(n - 1) :
                  Threw(history[i]) /\ retryCondition(cop.options, history[i])
            /\ cpc = "done" =>
                  /\ n >= 1
                  /\ cret = history[n]
                  /\ Threw(cret) =>
                        \/ n = cop.options.maxAttempts
                        \/ ~retryCondition(cop.options, cret)
                  /\ (~Threw(history[1]) \/ cop.options.retryCondition = "() => false")
                        => n = 1
            /\ cpc # "done" =>
                  /\ n < cop.options.maxAttempts
                  /\ \A i \in 1..n :
                        Threw(history[i]) /\ retryCondition(cop.options, history[i])

\* retry with maxAttempts 3 and the default condition called fn three times, each
\* call failed, and it threw the error of the third call
C13_Witness ==
    /\ cop.method = "retry"
    /\ cop.options.maxAttempts = 3
    /\ cpc = "done"
    /\ Len(history) = 3
    /\ Threw(cret)
    /\ cret = history[3]

\* C14: a request whose response is not complete when the timeout elapses fails
\* with the timeout error (code TIMEOUT), never with an AzureDevOpsError, whichever
\* of the socket timeout and the timer of withTimeout runs first
C14_TimeoutIsDedicated ==
    (RequestSettled /\ res.event \in {"timeout", "timer"}) =>
        /\ Threw(cret)
        /\ cret.code = "TIMEOUT"
        /\ cret.thrown # "AzureDevOpsError"
        /\ cret.code # "AZURE_DEVOPS_ERROR"

\* type, code and status code of an error
Signature(error) == <<error.thrown, error.code, error.statusCode>>

\* C15: a response whose body is not valid JSON fails with an error that differs
\* in type, code or status code from every error a response with a well-formed
\* body fails with, a genuine HTTP 500 included
C15_ParseErrorIsDedicated ==
    (RequestSettled /\ res.event = "end" /\ res.body = "malformed") =>
        /\ Threw(cret)
        /\ \A statusCode \in Statuses, body \in Bodies \ {"malformed"} :
              LET error == responseEnd(statusCode, body)
              IN  Threw(error) => Signature(cret) # Signature(error)

ClientOperations ==
    {"getPullRequest", "getPullRequestChanges", "getFileContent",
     "createPullRequestThread", "updatePullRequestThread"}

\* the required parameters, in declaration order
RequiredParameters == <<"project", "repositoryId", "pullRequestId", "threadData">>

\* the required parameters of the call that are undefined, null or empty
MissingOf(params) ==
    SelectSeq(RequiredParameters, LAMBDA f : f \in DOMAIN params /\ IsMissing(params[f]))

\* C16: a client operation called with a required parameter missing calls
\* makeRequest never, sends nothing, and fails with a ValidationError whose
\* missingFields are the missing parameters in declaration order
C16_MissingParametersFailFast ==
    (cop.method \in ClientOperations /\ MissingOf(cop.params) # <<>>) =>
        /\ history = <<>>
        /\ sent = <<>>
        /\ cpc = "done" =>
              /\ Threw(cret)
              /\ cret.thrown = "ValidationError"
              /\ cret.missingFields = MissingOf(cop.params)

-----------------------------------------------------------------------------
(* Properties of the formatter *)

SupportedFormats == {markdown, json, html, text}

\* a formatReport call was made for this format, whatever the case of its letters
FormatReportCalled(format) ==
    fcall.method = "formatReport" /\ toLowerCase(fcall.format) = format

\* C17: formatReport called with a format string that is not markdown, json,
\* html or text, whatever the case of the letters, throws the unsupported-format
\* error naming the format and returns no output; it formats nothing instead
C17_UnsupportedFormatFails ==
    (fcall.method = "formatReport" /\ toLowerCase(fcall.format) \notin SupportedFormats) =>
        \A i \in 1..Len(fret) :
            /\ Threw(fret[i].result)
            /\ "out" \notin DOMAIN fret[i].result
            /\ fret[i].result.message = <<"Unsupported format: ", fcall.format>>

\* formatReport was called with "yaml" and threw
C17_Witness ==
    /\ fcall.method = "formatReport"
    /\ fcall.format = <<"y", "a", "m", "l">>
    /\ fpc = "once"
    /\ Threw(fret[1].result)

\* the headings of the markdown sections in their fixed order
SectionOrder ==
    <<"# AI Code Review Report", "## Executive Summary", "## Critical Issues",
      "## Security Analysis", "## Performance Analysis", "## Code Quality Analysis",
      "## Recommendations", "## Code Metrics", "---">>

\* the first line of a section
Heading(section) == section[1][1]

\* place of the section in the fixed order
Rank(section) == CHOOSE k \in 1..Len(SectionOrder) : SectionOrder[k] = Heading(section)

\* a line that is neither blank nor a heading follows the heading of the section
HasEntry(section) ==
    \E k \in 2..Len(section) :
        /\ section[k] # Blank
        /\ section[k][1] \notin {"### ", "| Metric | Value | Status |",
                                 "|--------|-------|--------|"}

\* the data of the optional section of this rank is there and not empty
UnderlyingData(data, rank) ==
    CASE rank = 3 -> NonEmptyList(data, "criticalIssues")
      [] rank = 4 -> NonEmptyList(data, "security")
      [] rank = 5 -> NonEmptyList(data, "performance")
      [] rank = 6 -> NonEmptyList(data, "quality")
      [] rank = 7 -> NonEmptyList(data, "suggestions")
      [] rank = 8 -> Has(data, "metrics") /\ DOMAIN data.metrics # {}

\* C18: the sections of a markdown report follow the fixed order; header,
\* summary and footer are there; an optional section is there only when its
\* data is not empty, and then holds an entry beneath its heading
C18_SectionsOrderedAndFilled ==
    FormatReportCalled(markdown) =>
        \A i \in 1..Len(fret) :
            LET sections == fret[i].result.out
                n == Len(sections)
            IN  /\ \A k \in 1..n : Heading(sections[k]) \in Range(SectionOrder)
                /\ \A j \in 1..n, k \in 1..n :
                      j < k => Rank(sections[j]) < Rank(sections[k])
                /\ n >= 3
                /\ Rank(sections[1]) = 1
                /\ Rank(sections[2]) = 2
                /\ Rank(sections[n]) = 9
                /\ \A k \in 3..(n - 1) :
                      /\ UnderlyingData(fcall.analysisData, Rank(sections[k]))
                      /\ HasEntry(sections[k])

\* the suggestions the section renders, in the order of its lines
Rendered(section) ==
    LET at == {k \in 1..Len(section) : section[k] # Blank /\ section[k][1] = "- **"}
        nth(j) == CHOOSE k \in at : Cardinality({m \in at : m < k}) = j - 1
    IN  [j \in 1..Cardinality(at) |->
            [type |-> section[nth(j)][2], description |-> section[nth(j)][4]]]

\* the suggestions of the list that count as of this priority, in input order
OfPriority(suggestions, priority) ==
    SelectSeq(suggestions,
              LAMBDA s : (IF "priority" \in DOMAIN s THEN s.priority ELSE "low") = priority)

\* what the section is to render for these suggestions
AsRendered(suggestions) ==
    [j \in 1..Len(suggestions) |->
        [type |-> spaced(suggestions[j].type), description |-> suggestions[j].description]]

\* C19: the recommendations section renders the high-priority suggestions, then
\* the medium ones, then the low ones with those that have no priority, each
\* group in input order, and every suggestion of the input once
C19_SuggestionsByPriority ==
    (fcall.method = "formatMarkdownSuggestions" /\ fpc = "once") =>
        LET suggestions == fcall.suggestions
            rendered == Rendered(fret[1].result.out)
        IN  /\ rendered = AsRendered(OfPriority(suggestions, "high")
                                     \o OfPriority(suggestions, "medium")
                                     \o OfPriority(suggestions, "low"))
            /\ Len(rendered) = Len(suggestions)

\* the output with the generated-at timestamp of its footer blanked; the JSON
\* report has no footer
WithoutFooterTimestamp(format, out) ==
    CASE format = markdown -> [out EXCEPT ![Len(out)][4] = <<"generated at">>]
      [] format = html -> [out EXCEPT ![12] = <<"generated at">>]
      [] format = text -> [out EXCEPT ![Len(out)] = <<"generated at">>]
      [] format = json -> out

\* C20: the same data formatted twice in the same format, at two clock values,
\* gives the same output but for the generated-at timestamp of the footer
C20_SameOutputButFooter ==
    (fpc = "twice" /\ toLowerCase(fcall.format) \in SupportedFormats) =>
        WithoutFooterTimestamp(toLowerCase(fcall.format), fret[1].result.out)
            = WithoutFooterTimestamp(toLowerCase(fcall.format), fret[2].result.out)

-----------------------------------------------------------------------------
(* Properties of summarizeChanges *)

\* the number of changes of the list whose changeType is type
CountType(changes, type) ==
    Cardinality({i \in 1..Len(changes) : changes[i].changeType = type})

\* C21: each implementation of summarizeChanges returns files = the number of
\* changes, added, deleted and edited = the number of changes of changeType add,
\* delete and edit; the two implementations agree on files, added and deleted
C21_SummaryCounts ==
    (ucall.method = "summarizeChanges") =>
        /\ DOMAIN uret = {"files", "added", "deleted", "edited"}
        /\ uret.files = Len(ucall.changes)
        /\ uret.added = CountType(ucall.changes, "add")
        /\ uret.deleted = CountType(ucall.changes, "delete")
        /\ uret.edited = CountType(ucall.changes, "edit")
        /\ uret.files >= uret.added + uret.deleted + uret.edited
        /\ \A f \in {"files", "added", "deleted"} :
              summarizeChanges(ucall.changes)[f] = summarizeChangesPart003(ucall.changes)[f]

-----------------------------------------------------------------------------
(* Properties of the webhook handler *)

PipelineEvents == {"git.pullrequest.created", "git.pullrequest.updated"}

\* the request being handled is of one of the two pull-request event types
PipelineEvent == "eventType" \in DOMAIN wreq /\ wreq.eventType \in PipelineEvents

\* C22: a request of another event type than git.pullrequest.created and
\* git.pullrequest.updated is answered with a success status and no call is made
\* on the PR host for it; each request receives exactly one response
C22_OtherEventsAcknowledged ==
    /\ (wpc # "idle" /\ ~PipelineEvent) => hostCalls = <<>>
    /\ (wpc = "done" /\ ~PipelineEvent) =>
          \A i \in 1..Len(responses) : responses[i].status \in 200..299
    /\ Len(responses) = (IF wpc = "done" THEN 1 ELSE 0)

-----------------------------------------------------------------------------
(* Properties of repeated analyses *)

\* C23: after any number of analyzeDiff calls on one analyzer the three rule sets
\* are as the constructor built them, and the call just made returned what the
\* analyzer as constructed returns for its arguments
C23_RuleSetsReadOnly ==
    (pc \in {"done", "again"} /\ call.method = "analyzeDiff") =>
        /\ securityPatterns = initializeSecurityPatterns
        /\ performancePatterns = initializePerformancePatterns
        /\ qualityPatterns = initializeQualityPatterns
        /\ ret = analyzeDiff(call.diffContent, call.fileInfo)

\* a repeated call that tested added lines against the rule sets and reported issues
C23_Witness ==
    /\ pc = "again"
    /\ call.method = "analyzeDiff"
    /\ ~Threw(ret)
    /\ ret.security # <<>>
    /\ ret.quality # <<>>

-----------------------------------------------------------------------------
(* Properties of the signature validators *)

\* the signature of the call is the hex digest of its payload under its secret,
\* in either case of the hex letters, for ErrorHandler also behind the prefix sha256=
CorrectSignature ==
    /\ ucall.signature.kind = "string"
    /\ LET provided == ucall.signature.chars
           digest == hmacHex(ucall.payload, ucall.secret)
       IN  \/ toLowerCase(provided) = digest
           \/ /\ ucall.method = "ErrorHandler.validateWebhookSignature"
              /\ startsWith(provided, sha256Prefix)
              /\ toLowerCase(SubSeq(provided, Len(sha256Prefix) + 1, Len(provided))) = digest

\* C24: a signature that is not the correct HMAC of the payload (missing, of
\* another length, not hexadecimal) makes ErrorHandler.validateWebhookSignature
\* throw a WebhookError and AzureDevOpsClient.validateWebhookSignature return
\* false, and nothing else is raised; the correct signature is accepted
C24_WrongSignatureRejected ==
    /\ (ucall.method = "ErrorHandler.validateWebhookSignature") =>
          IF CorrectSignature THEN ~Threw(uret)
          ELSE Threw(uret) /\ uret.thrown = "WebhookError"
    /\ (ucall.method = "AzureDevOpsClient.validateWebhookSignature"
            /\ ucall.signature.kind = "string") =>
          /\ ~Threw(uret)
          /\ uret.value = CorrectSignature

-----------------------------------------------------------------------------
(* Properties of the logger *)

\* error > warn > info > debug
Severity == [error |-> 4, warn |-> 3, info |-> 2, debug |-> 1]

\* C25: a logger configured with a level L of error, warn, info, debug has written,
\* of the messages of these four levels it was handed, exactly those whose level is
\* at least as severe as L
C25_LevelFiltering ==
    (loggerLevel \in DOMAIN Severity) =>
        SelectSeq(output, LAMBDA m : m \in DOMAIN Severity)
            = SelectSeq(logged, LAMBDA m : m \in DOMAIN Severity
                                           /\ Severity[m] >= Severity[loggerLevel])

-----------------------------------------------------------------------------
(* Properties of the retry delays *)

RECURSIVE Power(_, _)
Power(b, e) == IF e = 0 THEN 1 ELSE b * Power(b, e - 1)

\* C26: the k-th sleep of ErrorHandler.retry, before attempt k + 1, lasts
\* min(initialDelay * backoffFactor^(k-1), maxDelay) and so at most maxDelay; a
\* sleep follows only a failed call that retryCondition accepts and that was not
\* the maxAttempts-th, and every sleep is followed by the next call
C26_BackoffWithinBound ==
    ("options" \in DOMAIN cop) =>
        LET options == cop.options
        IN  /\ \A k \in 1..Len(slept) :
                  /\ slept[k] = MathMin(options.initialDelay
                                            * Power(options.backoffFactor, k - 1),
                                        options.maxDelay)
                  /\ slept[k] <= options.maxDelay
                  /\ k <= Len(history)
                  /\ Threw(history[k])
                  /\ retryCondition(options, history[k])
                  /\ k < options.maxAttempts
            /\ cpc = "done" => Len(slept) = (IF history = <<>> THEN 0 ELSE Len(history) - 1)

-----------------------------------------------------------------------------
(* Properties of retry for every maxAttempts *)

\* C30: for every maxAttempts, ErrorHandler.retry ends having called fn at least
\* once, and what it throws is the error some call of fn threw
C30_RetryAttemptsOnce ==
    (cop.method = "retry" /\ cpc = "done") =>
        /\ Len(history) >= 1
        /\ Threw(cret) => \E i \in 1..Len(history) : Threw(history[i]) /\ history[i] = cret

-----------------------------------------------------------------------------
(* Properties of the circuit breaker *)

\* the step is a call made through the breaker
BreakerCalled == Len(completed') + Len(inflight') = Len(completed) + Len(inflight) + 1

\* C27: a call through an OPEN breaker made less than recoveryTimeout after the
\* last recorded failure fails with CIRCUIT_BREAKER_OPEN (503) without calling fn
\* and leaves state, failureCount and lastFailureTime as they were; a call made
\* once recoveryTimeout has elapsed makes the breaker HALF_OPEN and calls fn
C27_OpenBreakerRejects ==
    [][(state = "OPEN" /\ BreakerCalled) =>
          IF now - lastFailureTime < recoveryTimeout
          THEN /\ inflight' = inflight
               /\ LET ended == completed'[Len(completed')]
                  IN  /\ ended.outcome = "threw"
                      /\ ended.error.code = "CIRCUIT_BREAKER_OPEN"
                      /\ ended.error.statusCode = 503
               /\ UNCHANGED <<state, failureCount, lastFailureTime>>
          ELSE /\ state' = "HALF_OPEN"
               /\ Len(inflight') = Len(inflight) + 1
               /\ completed' = completed]_vars

\* an open breaker has rejected a call and, the recovery timeout over, has
\* admitted a later one as HALF_OPEN
C27_Witness ==
    /\ state = "HALF_OPEN"
    /\ \E i \in 1..Len(completed) : completed[i].admitted = "no"
    /\ \E i \in 1..Len(inflight) : inflight[i].admitted = "HALF_OPEN"

\* the step ends a call that had been admitted: fn returned or threw
CallEnded == Len(inflight') = Len(inflight) - 1

\* the call the step ended
Ended == completed'[Len(completed')]

\* C28: a CLOSED breaker becomes OPEN only when the failureThreshold calls that
\* ended last all failed, and a call that succeeds while the breaker is CLOSED
\* sets failureCount back to 0
C28_OpensAfterConsecutiveFailures ==
    [][(state = "CLOSED" /\ CallEnded) =>
          /\ state' = "OPEN" =>
                /\ Len(completed') >= failureThreshold
                /\ \A i \in (Len(completed') - failureThreshold + 1)..Len(completed') :
                      completed'[i].outcome = "threw" /\ completed'[i].admitted # "no"
          /\ Ended.outcome = "returned" => failureCount' = 0]_vars

\* C29: a HALF_OPEN breaker counts a success, closes or reopens only when the call
\* that ends was admitted while the breaker was HALF_OPEN, and it closes only
\* when 3 such calls have succeeded
C29_OnlyProbesCount ==
    [][(state = "HALF_OPEN" /\ CallEnded) =>
          /\ Ended.admitted # "HALF_OPEN" => UNCHANGED <<state, successCount>>
          /\ state' = "CLOSED" =>
                Cardinality({i \in 1..Len(completed') :
                                /\ completed'[i].admitted = "HALF_OPEN"
                                /\ completed'[i].outcome = "returned"}) >= closingSuccesses]_vars

====
